---- MODULE Spec2Model ----
(***************************************************************************)
(* Model of the viewing-period table reader (analysis/src/tsv_reader.rs)   *)
(* and of the record type it fills (analysis/src/viewingperiod.rs).        *)
(*                                                                         *)
(* Text is a sequence of one-character strings, so that splitting,         *)
(* trimming, upper-casing and number parsing are computed character by     *)
(* character as the code does.  An instant is a date (days since           *)
(* 1970-01-01), a second of the day and a fraction in milliseconds that    *)
(* is 1000 or more within a leap second, as chrono keeps it; a duration is *)
(* an integer, in milliseconds.  An f64 or f32 is its exact binary value:  *)
(* a sign, an odd whole number and a power of two; an i64 is a sign and a  *)
(* whole number of any size.                                               *)
(***************************************************************************)
EXTENDS Integers, Sequences

(***************************************************************************)
(* Option<T> and Result<T, E>                                              *)
(***************************************************************************)
None == [some |-> FALSE]
Some(x) == [some |-> TRUE, v |-> x]

Err == [ok |-> FALSE]
Ok(x) == [ok |-> TRUE, v |-> x]

\* A call either yields a value or panics with a message.
Panic(msg) == [panic |-> TRUE, msg |-> msg]
Value(x) == [panic |-> FALSE, v |-> x]

\* Result::expect / Option::expect
expect(r, msg) == IF r.ok THEN Value(r.v) ELSE Panic(msg)

Min(a, b) == IF a <= b THEN a ELSE b

(***************************************************************************)
(* Characters                                                              *)
(***************************************************************************)
Digits == <<"0","1","2","3","4","5","6","7","8","9">>
LowerCase == <<"a","b","c","d","e","f","g","h","i","j","k","l","m","n","o","p","q","r","s","t","u","v","w","x","y","z">>
UpperCase == <<"A","B","C","D","E","F","G","H","I","J","K","L","M","N","O","P","Q","R","S","T","U","V","W","X","Y","Z">>

\* A character outside ASCII is written as its code point, "U+017F" for
\* the long s: one element of a text is one char of the str.

\* char::is_whitespace: the Unicode White_Space characters
WhiteSpace ==
    {"\t", "\n", "U+000B", "\f", "\r", " ", "U+0085", "U+00A0", "U+1680",
     "U+2000", "U+2001", "U+2002", "U+2003", "U+2004", "U+2005", "U+2006",
     "U+2007", "U+2008", "U+2009", "U+200A", "U+2028", "U+2029", "U+202F",
     "U+205F", "U+3000"}

IndexOf(c, alphabet) == CHOOSE k \in 1..Len(alphabet) : alphabet[k] = c

IsDigit(c) == \E k \in 1..Len(Digits) : Digits[k] = c

\* The characters outside a..z that have an upper case of their own, each
\* with the chars of its upper case (the unconditional mappings of Unicode
\* 17.0; the standard library carries the tables of its release).
UpperPairs == <<
    <<"U+00B5", <<"U+039C">>>>, <<"U+00DF", <<"S", "S">>>>, <<"U+00E0", <<"U+00C0">>>>,
    <<"U+00E1", <<"U+00C1">>>>, <<"U+00E2", <<"U+00C2">>>>, <<"U+00E3", <<"U+00C3">>>>,
    <<"U+00E4", <<"U+00C4">>>>, <<"U+00E5", <<"U+00C5">>>>, <<"U+00E6", <<"U+00C6">>>>,
    <<"U+00E7", <<"U+00C7">>>>, <<"U+00E8", <<"U+00C8">>>>, <<"U+00E9", <<"U+00C9">>>>,
    <<"U+00EA", <<"U+00CA">>>>, <<"U+00EB", <<"U+00CB">>>>, <<"U+00EC", <<"U+00CC">>>>,
    <<"U+00ED", <<"U+00CD">>>>, <<"U+00EE", <<"U+00CE">>>>, <<"U+00EF", <<"U+00CF">>>>,
    <<"U+00F0", <<"U+00D0">>>>, <<"U+00F1", <<"U+00D1">>>>, <<"U+00F2", <<"U+00D2">>>>,
    <<"U+00F3", <<"U+00D3">>>>, <<"U+00F4", <<"U+00D4">>>>, <<"U+00F5", <<"U+00D5">>>>,
    <<"U+00F6", <<"U+00D6">>>>, <<"U+00F8", <<"U+00D8">>>>, <<"U+00F9", <<"U+00D9">>>>,
    <<"U+00FA", <<"U+00DA">>>>, <<"U+00FB", <<"U+00DB">>>>, <<"U+00FC", <<"U+00DC">>>>,
    <<"U+00FD", <<"U+00DD">>>>, <<"U+00FE", <<"U+00DE">>>>, <<"U+00FF", <<"U+0178">>>>,
    <<"U+0101", <<"U+0100">>>>, <<"U+0103", <<"U+0102">>>>, <<"U+0105", <<"U+0104">>>>,
    <<"U+0107", <<"U+0106">>>>, <<"U+0109", <<"U+0108">>>>, <<"U+010B", <<"U+010A">>>>,
    <<"U+010D", <<"U+010C">>>>, <<"U+010F", <<"U+010E">>>>, <<"U+0111", <<"U+0110">>>>,
    <<"U+0113", <<"U+0112">>>>, <<"U+0115", <<"U+0114">>>>, <<"U+0117", <<"U+0116">>>>,
    <<"U+0119", <<"U+0118">>>>, <<"U+011B", <<"U+011A">>>>, <<"U+011D", <<"U+011C">>>>,
    <<"U+011F", <<"U+011E">>>>, <<"U+0121", <<"U+0120">>>>, <<"U+0123", <<"U+0122">>>>,
    <<"U+0125", <<"U+0124">>>>, <<"U+0127", <<"U+0126">>>>, <<"U+0129", <<"U+0128">>>>,
    <<"U+012B", <<"U+012A">>>>, <<"U+012D", <<"U+012C">>>>, <<"U+012F", <<"U+012E">>>>,
    <<"U+0131", <<"I">>>>, <<"U+0133", <<"U+0132">>>>, <<"U+0135", <<"U+0134">>>>,
    <<"U+0137", <<"U+0136">>>>, <<"U+013A", <<"U+0139">>>>, <<"U+013C", <<"U+013B">>>>,
    <<"U+013E", <<"U+013D">>>>, <<"U+0140", <<"U+013F">>>>, <<"U+0142", <<"U+0141">>>>,
    <<"U+0144", <<"U+0143">>>>, <<"U+0146", <<"U+0145">>>>, <<"U+0148", <<"U+0147">>>>,
    <<"U+0149", <<"U+02BC", "N">>>>, <<"U+014B", <<"U+014A">>>>, <<"U+014D", <<"U+014C">>>>,
    <<"U+014F", <<"U+014E">>>>, <<"U+0151", <<"U+0150">>>>, <<"U+0153", <<"U+0152">>>>,
    <<"U+0155", <<"U+0154">>>>, <<"U+0157", <<"U+0156">>>>, <<"U+0159", <<"U+0158">>>>,
    <<"U+015B", <<"U+015A">>>>, <<"U+015D", <<"U+015C">>>>, <<"U+015F", <<"U+015E">>>>,
    <<"U+0161", <<"U+0160">>>>, <<"U+0163", <<"U+0162">>>>, <<"U+0165", <<"U+0164">>>>,
    <<"U+0167", <<"U+0166">>>>, <<"U+0169", <<"U+0168">>>>, <<"U+016B", <<"U+016A">>>>,
    <<"U+016D", <<"U+016C">>>>, <<"U+016F", <<"U+016E">>>>, <<"U+0171", <<"U+0170">>>>,
    <<"U+0173", <<"U+0172">>>>, <<"U+0175", <<"U+0174">>>>, <<"U+0177", <<"U+0176">>>>,
    <<"U+017A", <<"U+0179">>>>, <<"U+017C", <<"U+017B">>>>, <<"U+017E", <<"U+017D">>>>,
    <<"U+017F", <<"S">>>>, <<"U+0180", <<"U+0243">>>>, <<"U+0183", <<"U+0182">>>>,
    <<"U+0185", <<"U+0184">>>>, <<"U+0188", <<"U+0187">>>>, <<"U+018C", <<"U+018B">>>>,
    <<"U+0192", <<"U+0191">>>>, <<"U+0195", <<"U+01F6">>>>, <<"U+0199", <<"U+0198">>>>,
    <<"U+019A", <<"U+023D">>>>, <<"U+019B", <<"U+A7DC">>>>, <<"U+019E", <<"U+0220">>>>,
    <<"U+01A1", <<"U+01A0">>>>, <<"U+01A3", <<"U+01A2">>>>, <<"U+01A5", <<"U+01A4">>>>,
    <<"U+01A8", <<"U+01A7">>>>, <<"U+01AD", <<"U+01AC">>>>, <<"U+01B0", <<"U+01AF">>>>,
    <<"U+01B4", <<"U+01B3">>>>, <<"U+01B6", <<"U+01B5">>>>, <<"U+01B9", <<"U+01B8">>>>,
    <<"U+01BD", <<"U+01BC">>>>, <<"U+01BF", <<"U+01F7">>>>, <<"U+01C5", <<"U+01C4">>>>,
    <<"U+01C6", <<"U+01C4">>>>, <<"U+01C8", <<"U+01C7">>>>, <<"U+01C9", <<"U+01C7">>>>,
    <<"U+01CB", <<"U+01CA">>>>, <<"U+01CC", <<"U+01CA">>>>, <<"U+01CE", <<"U+01CD">>>>,
    <<"U+01D0", <<"U+01CF">>>>, <<"U+01D2", <<"U+01D1">>>>, <<"U+01D4", <<"U+01D3">>>>,
    <<"U+01D6", <<"U+01D5">>>>, <<"U+01D8", <<"U+01D7">>>>, <<"U+01DA", <<"U+01D9">>>>,
    <<"U+01DC", <<"U+01DB">>>>, <<"U+01DD", <<"U+018E">>>>, <<"U+01DF", <<"U+01DE">>>>,
    <<"U+01E1", <<"U+01E0">>>>, <<"U+01E3", <<"U+01E2">>>>, <<"U+01E5", <<"U+01E4">>>>,
    <<"U+01E7", <<"U+01E6">>>>, <<"U+01E9", <<"U+01E8">>>>, <<"U+01EB", <<"U+01EA">>>>,
    <<"U+01ED", <<"U+01EC">>>>, <<"U+01EF", <<"U+01EE">>>>, <<"U+01F0", <<"J", "U+030C">>>>,
    <<"U+01F2", <<"U+01F1">>>>, <<"U+01F3", <<"U+01F1">>>>, <<"U+01F5", <<"U+01F4">>>>,
    <<"U+01F9", <<"U+01F8">>>>, <<"U+01FB", <<"U+01FA">>>>, <<"U+01FD", <<"U+01FC">>>>,
    <<"U+01FF", <<"U+01FE">>>>, <<"U+0201", <<"U+0200">>>>, <<"U+0203", <<"U+0202">>>>,
    <<"U+0205", <<"U+0204">>>>, <<"U+0207", <<"U+0206">>>>, <<"U+0209", <<"U+0208">>>>,
    <<"U+020B", <<"U+020A">>>>, <<"U+020D", <<"U+020C">>>>, <<"U+020F", <<"U+020E">>>>,
    <<"U+0211", <<"U+0210">>>>, <<"U+0213", <<"U+0212">>>>, <<"U+0215", <<"U+0214">>>>,
    <<"U+0217", <<"U+0216">>>>, <<"U+0219", <<"U+0218">>>>, <<"U+021B", <<"U+021A">>>>,
    <<"U+021D", <<"U+021C">>>>, <<"U+021F", <<"U+021E">>>>, <<"U+0223", <<"U+0222">>>>,
    <<"U+0225", <<"U+0224">>>>, <<"U+0227", <<"U+0226">>>>, <<"U+0229", <<"U+0228">>>>,
    <<"U+022B", <<"U+022A">>>>, <<"U+022D", <<"U+022C">>>>, <<"U+022F", <<"U+022E">>>>,
    <<"U+0231", <<"U+0230">>>>, <<"U+0233", <<"U+0232">>>>, <<"U+023C", <<"U+023B">>>>,
    <<"U+023F", <<"U+2C7E">>>>, <<"U+0240", <<"U+2C7F">>>>, <<"U+0242", <<"U+0241">>>>,
    <<"U+0247", <<"U+0246">>>>, <<"U+0249", <<"U+0248">>>>, <<"U+024B", <<"U+024A">>>>,
    <<"U+024D", <<"U+024C">>>>, <<"U+024F", <<"U+024E">>>>, <<"U+0250", <<"U+2C6F">>>>,
    <<"U+0251", <<"U+2C6D">>>>, <<"U+0252", <<"U+2C70">>>>, <<"U+0253", <<"U+0181">>>>,
    <<"U+0254", <<"U+0186">>>>, <<"U+0256", <<"U+0189">>>>, <<"U+0257", <<"U+018A">>>>,
    <<"U+0259", <<"U+018F">>>>, <<"U+025B", <<"U+0190">>>>, <<"U+025C", <<"U+A7AB">>>>,
    <<"U+0260", <<"U+0193">>>>, <<"U+0261", <<"U+A7AC">>>>, <<"U+0263", <<"U+0194">>>>,
    <<"U+0264", <<"U+A7CB">>>>, <<"U+0265", <<"U+A78D">>>>, <<"U+0266", <<"U+A7AA">>>>,
    <<"U+0268", <<"U+0197">>>>, <<"U+0269", <<"U+0196">>>>, <<"U+026A", <<"U+A7AE">>>>,
    <<"U+026B", <<"U+2C62">>>>, <<"U+026C", <<"U+A7AD">>>>, <<"U+026F", <<"U+019C">>>>,
    <<"U+0271", <<"U+2C6E">>>>, <<"U+0272", <<"U+019D">>>>, <<"U+0275", <<"U+019F">>>>,
    <<"U+027D", <<"U+2C64">>>>, <<"U+0280", <<"U+01A6">>>>, <<"U+0282", <<"U+A7C5">>>>,
    <<"U+0283", <<"U+01A9">>>>, <<"U+0287", <<"U+A7B1">>>>, <<"U+0288", <<"U+01AE">>>>,
    <<"U+0289", <<"U+0244">>>>, <<"U+028A", <<"U+01B1">>>>, <<"U+028B", <<"U+01B2">>>>,
    <<"U+028C", <<"U+0245">>>>, <<"U+0292", <<"U+01B7">>>>, <<"U+029D", <<"U+A7B2">>>>,
    <<"U+029E", <<"U+A7B0">>>>, <<"U+0345", <<"U+0399">>>>, <<"U+0371", <<"U+0370">>>>,
    <<"U+0373", <<"U+0372">>>>, <<"U+0377", <<"U+0376">>>>, <<"U+037B", <<"U+03FD">>>>,
    <<"U+037C", <<"U+03FE">>>>, <<"U+037D", <<"U+03FF">>>>,
    <<"U+0390", <<"U+0399", "U+0308", "U+0301">>>>, <<"U+03AC", <<"U+0386">>>>,
    <<"U+03AD", <<"U+0388">>>>, <<"U+03AE", <<"U+0389">>>>, <<"U+03AF", <<"U+038A">>>>,
    <<"U+03B0", <<"U+03A5", "U+0308", "U+0301">>>>, <<"U+03B1", <<"U+0391">>>>,
    <<"U+03B2", <<"U+0392">>>>, <<"U+03B3", <<"U+0393">>>>, <<"U+03B4", <<"U+0394">>>>,
    <<"U+03B5", <<"U+0395">>>>, <<"U+03B6", <<"U+0396">>>>, <<"U+03B7", <<"U+0397">>>>,
    <<"U+03B8", <<"U+0398">>>>, <<"U+03B9", <<"U+0399">>>>, <<"U+03BA", <<"U+039A">>>>,
    <<"U+03BB", <<"U+039B">>>>, <<"U+03BC", <<"U+039C">>>>, <<"U+03BD", <<"U+039D">>>>,
    <<"U+03BE", <<"U+039E">>>>, <<"U+03BF", <<"U+039F">>>>, <<"U+03C0", <<"U+03A0">>>>,
    <<"U+03C1", <<"U+03A1">>>>, <<"U+03C2", <<"U+03A3">>>>, <<"U+03C3", <<"U+03A3">>>>,
    <<"U+03C4", <<"U+03A4">>>>, <<"U+03C5", <<"U+03A5">>>>, <<"U+03C6", <<"U+03A6">>>>,
    <<"U+03C7", <<"U+03A7">>>>, <<"U+03C8", <<"U+03A8">>>>, <<"U+03C9", <<"U+03A9">>>>,
    <<"U+03CA", <<"U+03AA">>>>, <<"U+03CB", <<"U+03AB">>>>, <<"U+03CC", <<"U+038C">>>>,
    <<"U+03CD", <<"U+038E">>>>, <<"U+03CE", <<"U+038F">>>>, <<"U+03D0", <<"U+0392">>>>,
    <<"U+03D1", <<"U+0398">>>>, <<"U+03D5", <<"U+03A6">>>>, <<"U+03D6", <<"U+03A0">>>>,
    <<"U+03D7", <<"U+03CF">>>>, <<"U+03D9", <<"U+03D8">>>>, <<"U+03DB", <<"U+03DA">>>>,
    <<"U+03DD", <<"U+03DC">>>>, <<"U+03DF", <<"U+03DE">>>>, <<"U+03E1", <<"U+03E0">>>>,
    <<"U+03E3", <<"U+03E2">>>>, <<"U+03E5", <<"U+03E4">>>>, <<"U+03E7", <<"U+03E6">>>>,
    <<"U+03E9", <<"U+03E8">>>>, <<"U+03EB", <<"U+03EA">>>>, <<"U+03ED", <<"U+03EC">>>>,
    <<"U+03EF", <<"U+03EE">>>>, <<"U+03F0", <<"U+039A">>>>, <<"U+03F1", <<"U+03A1">>>>,
    <<"U+03F2", <<"U+03F9">>>>, <<"U+03F3", <<"U+037F">>>>, <<"U+03F5", <<"U+0395">>>>,
    <<"U+03F8", <<"U+03F7">>>>, <<"U+03FB", <<"U+03FA">>>>, <<"U+0430", <<"U+0410">>>>,
    <<"U+0431", <<"U+0411">>>>, <<"U+0432", <<"U+0412">>>>, <<"U+0433", <<"U+0413">>>>,
    <<"U+0434", <<"U+0414">>>>, <<"U+0435", <<"U+0415">>>>, <<"U+0436", <<"U+0416">>>>,
    <<"U+0437", <<"U+0417">>>>, <<"U+0438", <<"U+0418">>>>, <<"U+0439", <<"U+0419">>>>,
    <<"U+043A", <<"U+041A">>>>, <<"U+043B", <<"U+041B">>>>, <<"U+043C", <<"U+041C">>>>,
    <<"U+043D", <<"U+041D">>>>, <<"U+043E", <<"U+041E">>>>, <<"U+043F", <<"U+041F">>>>,
    <<"U+0440", <<"U+0420">>>>, <<"U+0441", <<"U+0421">>>>, <<"U+0442", <<"U+0422">>>>,
    <<"U+0443", <<"U+0423">>>>, <<"U+0444", <<"U+0424">>>>, <<"U+0445", <<"U+0425">>>>,
    <<"U+0446", <<"U+0426">>>>, <<"U+0447", <<"U+0427">>>>, <<"U+0448", <<"U+0428">>>>,
    <<"U+0449", <<"U+0429">>>>, <<"U+044A", <<"U+042A">>>>, <<"U+044B", <<"U+042B">>>>,
    <<"U+044C", <<"U+042C">>>>, <<"U+044D", <<"U+042D">>>>, <<"U+044E", <<"U+042E">>>>,
    <<"U+044F", <<"U+042F">>>>, <<"U+0450", <<"U+0400">>>>, <<"U+0451", <<"U+0401">>>>,
    <<"U+0452", <<"U+0402">>>>, <<"U+0453", <<"U+0403">>>>, <<"U+0454", <<"U+0404">>>>,
    <<"U+0455", <<"U+0405">>>>, <<"U+0456", <<"U+0406">>>>, <<"U+0457", <<"U+0407">>>>,
    <<"U+0458", <<"U+0408">>>>, <<"U+0459", <<"U+0409">>>>, <<"U+045A", <<"U+040A">>>>,
    <<"U+045B", <<"U+040B">>>>, <<"U+045C", <<"U+040C">>>>, <<"U+045D", <<"U+040D">>>>,
    <<"U+045E", <<"U+040E">>>>, <<"U+045F", <<"U+040F">>>>, <<"U+0461", <<"U+0460">>>>,
    <<"U+0463", <<"U+0462">>>>, <<"U+0465", <<"U+0464">>>>, <<"U+0467", <<"U+0466">>>>,
    <<"U+0469", <<"U+0468">>>>, <<"U+046B", <<"U+046A">>>>, <<"U+046D", <<"U+046C">>>>,
    <<"U+046F", <<"U+046E">>>>, <<"U+0471", <<"U+0470">>>>, <<"U+0473", <<"U+0472">>>>,
    <<"U+0475", <<"U+0474">>>>, <<"U+0477", <<"U+0476">>>>, <<"U+0479", <<"U+0478">>>>,
    <<"U+047B", <<"U+047A">>>>, <<"U+047D", <<"U+047C">>>>, <<"U+047F", <<"U+047E">>>>,
    <<"U+0481", <<"U+0480">>>>, <<"U+048B", <<"U+048A">>>>, <<"U+048D", <<"U+048C">>>>,
    <<"U+048F", <<"U+048E">>>>, <<"U+0491", <<"U+0490">>>>, <<"U+0493", <<"U+0492">>>>,
    <<"U+0495", <<"U+0494">>>>, <<"U+0497", <<"U+0496">>>>, <<"U+0499", <<"U+0498">>>>,
    <<"U+049B", <<"U+049A">>>>, <<"U+049D", <<"U+049C">>>>, <<"U+049F", <<"U+049E">>>>,
    <<"U+04A1", <<"U+04A0">>>>, <<"U+04A3", <<"U+04A2">>>>, <<"U+04A5", <<"U+04A4">>>>,
    <<"U+04A7", <<"U+04A6">>>>, <<"U+04A9", <<"U+04A8">>>>, <<"U+04AB", <<"U+04AA">>>>,
    <<"U+04AD", <<"U+04AC">>>>, <<"U+04AF", <<"U+04AE">>>>, <<"U+04B1", <<"U+04B0">>>>,
    <<"U+04B3", <<"U+04B2">>>>, <<"U+04B5", <<"U+04B4">>>>, <<"U+04B7", <<"U+04B6">>>>,
    <<"U+04B9", <<"U+04B8">>>>, <<"U+04BB", <<"U+04BA">>>>, <<"U+04BD", <<"U+04BC">>>>,
    <<"U+04BF", <<"U+04BE">>>>, <<"U+04C2", <<"U+04C1">>>>, <<"U+04C4", <<"U+04C3">>>>,
    <<"U+04C6", <<"U+04C5">>>>, <<"U+04C8", <<"U+04C7">>>>, <<"U+04CA", <<"U+04C9">>>>,
    <<"U+04CC", <<"U+04CB">>>>, <<"U+04CE", <<"U+04CD">>>>, <<"U+04CF", <<"U+04C0">>>>,
    <<"U+04D1", <<"U+04D0">>>>, <<"U+04D3", <<"U+04D2">>>>, <<"U+04D5", <<"U+04D4">>>>,
    <<"U+04D7", <<"U+04D6">>>>, <<"U+04D9", <<"U+04D8">>>>, <<"U+04DB", <<"U+04DA">>>>,
    <<"U+04DD", <<"U+04DC">>>>, <<"U+04DF", <<"U+04DE">>>>, <<"U+04E1", <<"U+04E0">>>>,
    <<"U+04E3", <<"U+04E2">>>>, <<"U+04E5", <<"U+04E4">>>>, <<"U+04E7", <<"U+04E6">>>>,
    <<"U+04E9", <<"U+04E8">>>>, <<"U+04EB", <<"U+04EA">>>>, <<"U+04ED", <<"U+04EC">>>>,
    <<"U+04EF", <<"U+04EE">>>>, <<"U+04F1", <<"U+04F0">>>>, <<"U+04F3", <<"U+04F2">>>>,
    <<"U+04F5", <<"U+04F4">>>>, <<"U+04F7", <<"U+04F6">>>>, <<"U+04F9", <<"U+04F8">>>>,
    <<"U+04FB", <<"U+04FA">>>>, <<"U+04FD", <<"U+04FC">>>>, <<"U+04FF", <<"U+04FE">>>>,
    <<"U+0501", <<"U+0500">>>>, <<"U+0503", <<"U+0502">>>>, <<"U+0505", <<"U+0504">>>>,
    <<"U+0507", <<"U+0506">>>>, <<"U+0509", <<"U+0508">>>>, <<"U+050B", <<"U+050A">>>>,
    <<"U+050D", <<"U+050C">>>>, <<"U+050F", <<"U+050E">>>>, <<"U+0511", <<"U+0510">>>>,
    <<"U+0513", <<"U+0512">>>>, <<"U+0515", <<"U+0514">>>>, <<"U+0517", <<"U+0516">>>>,
    <<"U+0519", <<"U+0518">>>>, <<"U+051B", <<"U+051A">>>>, <<"U+051D", <<"U+051C">>>>,
    <<"U+051F", <<"U+051E">>>>, <<"U+0521", <<"U+0520">>>>, <<"U+0523", <<"U+0522">>>>,
    <<"U+0525", <<"U+0524">>>>, <<"U+0527", <<"U+0526">>>>, <<"U+0529", <<"U+0528">>>>,
    <<"U+052B", <<"U+052A">>>>, <<"U+052D", <<"U+052C">>>>, <<"U+052F", <<"U+052E">>>>,
    <<"U+0561", <<"U+0531">>>>, <<"U+0562", <<"U+0532">>>>, <<"U+0563", <<"U+0533">>>>,
    <<"U+0564", <<"U+0534">>>>, <<"U+0565", <<"U+0535">>>>, <<"U+0566", <<"U+0536">>>>,
    <<"U+0567", <<"U+0537">>>>, <<"U+0568", <<"U+0538">>>>, <<"U+0569", <<"U+0539">>>>,
    <<"U+056A", <<"U+053A">>>>, <<"U+056B", <<"U+053B">>>>, <<"U+056C", <<"U+053C">>>>,
    <<"U+056D", <<"U+053D">>>>, <<"U+056E", <<"U+053E">>>>, <<"U+056F", <<"U+053F">>>>,
    <<"U+0570", <<"U+0540">>>>, <<"U+0571", <<"U+0541">>>>, <<"U+0572", <<"U+0542">>>>,
    <<"U+0573", <<"U+0543">>>>, <<"U+0574", <<"U+0544">>>>, <<"U+0575", <<"U+0545">>>>,
    <<"U+0576", <<"U+0546">>>>, <<"U+0577", <<"U+0547">>>>, <<"U+0578", <<"U+0548">>>>,
    <<"U+0579", <<"U+0549">>>>, <<"U+057A", <<"U+054A">>>>, <<"U+057B", <<"U+054B">>>>,
    <<"U+057C", <<"U+054C">>>>, <<"U+057D", <<"U+054D">>>>, <<"U+057E", <<"U+054E">>>>,
    <<"U+057F", <<"U+054F">>>>, <<"U+0580", <<"U+0550">>>>, <<"U+0581", <<"U+0551">>>>,
    <<"U+0582", <<"U+0552">>>>, <<"U+0583", <<"U+0553">>>>, <<"U+0584", <<"U+0554">>>>,
    <<"U+0585", <<"U+0555">>>>, <<"U+0586", <<"U+0556">>>>, <<"U+0587", <<"U+0535", "U+0552">>>>,
    <<"U+10D0", <<"U+1C90">>>>, <<"U+10D1", <<"U+1C91">>>>, <<"U+10D2", <<"U+1C92">>>>,
    <<"U+10D3", <<"U+1C93">>>>, <<"U+10D4", <<"U+1C94">>>>, <<"U+10D5", <<"U+1C95">>>>,
    <<"U+10D6", <<"U+1C96">>>>, <<"U+10D7", <<"U+1C97">>>>, <<"U+10D8", <<"U+1C98">>>>,
    <<"U+10D9", <<"U+1C99">>>>, <<"U+10DA", <<"U+1C9A">>>>, <<"U+10DB", <<"U+1C9B">>>>,
    <<"U+10DC", <<"U+1C9C">>>>, <<"U+10DD", <<"U+1C9D">>>>, <<"U+10DE", <<"U+1C9E">>>>,
    <<"U+10DF", <<"U+1C9F">>>>, <<"U+10E0", <<"U+1CA0">>>>, <<"U+10E1", <<"U+1CA1">>>>,
    <<"U+10E2", <<"U+1CA2">>>>, <<"U+10E3", <<"U+1CA3">>>>, <<"U+10E4", <<"U+1CA4">>>>,
    <<"U+10E5", <<"U+1CA5">>>>, <<"U+10E6", <<"U+1CA6">>>>, <<"U+10E7", <<"U+1CA7">>>>,
    <<"U+10E8", <<"U+1CA8">>>>, <<"U+10E9", <<"U+1CA9">>>>, <<"U+10EA", <<"U+1CAA">>>>,
    <<"U+10EB", <<"U+1CAB">>>>, <<"U+10EC", <<"U+1CAC">>>>, <<"U+10ED", <<"U+1CAD">>>>,
    <<"U+10EE", <<"U+1CAE">>>>, <<"U+10EF", <<"U+1CAF">>>>, <<"U+10F0", <<"U+1CB0">>>>,
    <<"U+10F1", <<"U+1CB1">>>>, <<"U+10F2", <<"U+1CB2">>>>, <<"U+10F3", <<"U+1CB3">>>>,
    <<"U+10F4", <<"U+1CB4">>>>, <<"U+10F5", <<"U+1CB5">>>>, <<"U+10F6", <<"U+1CB6">>>>,
    <<"U+10F7", <<"U+1CB7">>>>, <<"U+10F8", <<"U+1CB8">>>>, <<"U+10F9", <<"U+1CB9">>>>,
    <<"U+10FA", <<"U+1CBA">>>>, <<"U+10FD", <<"U+1CBD">>>>, <<"U+10FE", <<"U+1CBE">>>>,
    <<"U+10FF", <<"U+1CBF">>>>, <<"U+13F8", <<"U+13F0">>>>, <<"U+13F9", <<"U+13F1">>>>,
    <<"U+13FA", <<"U+13F2">>>>, <<"U+13FB", <<"U+13F3">>>>, <<"U+13FC", <<"U+13F4">>>>,
    <<"U+13FD", <<"U+13F5">>>>, <<"U+1C80", <<"U+0412">>>>, <<"U+1C81", <<"U+0414">>>>,
    <<"U+1C82", <<"U+041E">>>>, <<"U+1C83", <<"U+0421">>>>, <<"U+1C84", <<"U+0422">>>>,
    <<"U+1C85", <<"U+0422">>>>, <<"U+1C86", <<"U+042A">>>>, <<"U+1C87", <<"U+0462">>>>,
    <<"U+1C88", <<"U+A64A">>>>, <<"U+1C8A", <<"U+1C89">>>>, <<"U+1D79", <<"U+A77D">>>>,
    <<"U+1D7D", <<"U+2C63">>>>, <<"U+1D8E", <<"U+A7C6">>>>, <<"U+1E01", <<"U+1E00">>>>,
    <<"U+1E03", <<"U+1E02">>>>, <<"U+1E05", <<"U+1E04">>>>, <<"U+1E07", <<"U+1E06">>>>,
    <<"U+1E09", <<"U+1E08">>>>, <<"U+1E0B", <<"U+1E0A">>>>, <<"U+1E0D", <<"U+1E0C">>>>,
    <<"U+1E0F", <<"U+1E0E">>>>, <<"U+1E11", <<"U+1E10">>>>, <<"U+1E13", <<"U+1E12">>>>,
    <<"U+1E15", <<"U+1E14">>>>, <<"U+1E17", <<"U+1E16">>>>, <<"U+1E19", <<"U+1E18">>>>,
    <<"U+1E1B", <<"U+1E1A">>>>, <<"U+1E1D", <<"U+1E1C">>>>, <<"U+1E1F", <<"U+1E1E">>>>,
    <<"U+1E21", <<"U+1E20">>>>, <<"U+1E23", <<"U+1E22">>>>, <<"U+1E25", <<"U+1E24">>>>,
    <<"U+1E27", <<"U+1E26">>>>, <<"U+1E29", <<"U+1E28">>>>, <<"U+1E2B", <<"U+1E2A">>>>,
    <<"U+1E2D", <<"U+1E2C">>>>, <<"U+1E2F", <<"U+1E2E">>>>, <<"U+1E31", <<"U+1E30">>>>,
    <<"U+1E33", <<"U+1E32">>>>, <<"U+1E35", <<"U+1E34">>>>, <<"U+1E37", <<"U+1E36">>>>,
    <<"U+1E39", <<"U+1E38">>>>, <<"U+1E3B", <<"U+1E3A">>>>, <<"U+1E3D", <<"U+1E3C">>>>,
    <<"U+1E3F", <<"U+1E3E">>>>, <<"U+1E41", <<"U+1E40">>>>, <<"U+1E43", <<"U+1E42">>>>,
    <<"U+1E45", <<"U+1E44">>>>, <<"U+1E47", <<"U+1E46">>>>, <<"U+1E49", <<"U+1E48">>>>,
    <<"U+1E4B", <<"U+1E4A">>>>, <<"U+1E4D", <<"U+1E4C">>>>, <<"U+1E4F", <<"U+1E4E">>>>,
    <<"U+1E51", <<"U+1E50">>>>, <<"U+1E53", <<"U+1E52">>>>, <<"U+1E55", <<"U+1E54">>>>,
    <<"U+1E57", <<"U+1E56">>>>, <<"U+1E59", <<"U+1E58">>>>, <<"U+1E5B", <<"U+1E5A">>>>,
    <<"U+1E5D", <<"U+1E5C">>>>, <<"U+1E5F", <<"U+1E5E">>>>, <<"U+1E61", <<"U+1E60">>>>,
    <<"U+1E63", <<"U+1E62">>>>, <<"U+1E65", <<"U+1E64">>>>, <<"U+1E67", <<"U+1E66">>>>,
    <<"U+1E69", <<"U+1E68">>>>, <<"U+1E6B", <<"U+1E6A">>>>, <<"U+1E6D", <<"U+1E6C">>>>,
    <<"U+1E6F", <<"U+1E6E">>>>, <<"U+1E71", <<"U+1E70">>>>, <<"U+1E73", <<"U+1E72">>>>,
    <<"U+1E75", <<"U+1E74">>>>, <<"U+1E77", <<"U+1E76">>>>, <<"U+1E79", <<"U+1E78">>>>,
    <<"U+1E7B", <<"U+1E7A">>>>, <<"U+1E7D", <<"U+1E7C">>>>, <<"U+1E7F", <<"U+1E7E">>>>,
    <<"U+1E81", <<"U+1E80">>>>, <<"U+1E83", <<"U+1E82">>>>, <<"U+1E85", <<"U+1E84">>>>,
    <<"U+1E87", <<"U+1E86">>>>, <<"U+1E89", <<"U+1E88">>>>, <<"U+1E8B", <<"U+1E8A">>>>,
    <<"U+1E8D", <<"U+1E8C">>>>, <<"U+1E8F", <<"U+1E8E">>>>, <<"U+1E91", <<"U+1E90">>>>,
    <<"U+1E93", <<"U+1E92">>>>, <<"U+1E95", <<"U+1E94">>>>, <<"U+1E96", <<"H", "U+0331">>>>,
    <<"U+1E97", <<"T", "U+0308">>>>, <<"U+1E98", <<"W", "U+030A">>>>,
    <<"U+1E99", <<"Y", "U+030A">>>>, <<"U+1E9A", <<"A", "U+02BE">>>>, <<"U+1E9B", <<"U+1E60">>>>,
    <<"U+1EA1", <<"U+1EA0">>>>, <<"U+1EA3", <<"U+1EA2">>>>, <<"U+1EA5", <<"U+1EA4">>>>,
    <<"U+1EA7", <<"U+1EA6">>>>, <<"U+1EA9", <<"U+1EA8">>>>, <<"U+1EAB", <<"U+1EAA">>>>,
    <<"U+1EAD", <<"U+1EAC">>>>, <<"U+1EAF", <<"U+1EAE">>>>, <<"U+1EB1", <<"U+1EB0">>>>,
    <<"U+1EB3", <<"U+1EB2">>>>, <<"U+1EB5", <<"U+1EB4">>>>, <<"U+1EB7", <<"U+1EB6">>>>,
    <<"U+1EB9", <<"U+1EB8">>>>, <<"U+1EBB", <<"U+1EBA">>>>, <<"U+1EBD", <<"U+1EBC">>>>,
    <<"U+1EBF", <<"U+1EBE">>>>, <<"U+1EC1", <<"U+1EC0">>>>, <<"U+1EC3", <<"U+1EC2">>>>,
    <<"U+1EC5", <<"U+1EC4">>>>, <<"U+1EC7", <<"U+1EC6">>>>, <<"U+1EC9", <<"U+1EC8">>>>,
    <<"U+1ECB", <<"U+1ECA">>>>, <<"U+1ECD", <<"U+1ECC">>>>, <<"U+1ECF", <<"U+1ECE">>>>,
    <<"U+1ED1", <<"U+1ED0">>>>, <<"U+1ED3", <<"U+1ED2">>>>, <<"U+1ED5", <<"U+1ED4">>>>,
    <<"U+1ED7", <<"U+1ED6">>>>, <<"U+1ED9", <<"U+1ED8">>>>, <<"U+1EDB", <<"U+1EDA">>>>,
    <<"U+1EDD", <<"U+1EDC">>>>, <<"U+1EDF", <<"U+1EDE">>>>, <<"U+1EE1", <<"U+1EE0">>>>,
    <<"U+1EE3", <<"U+1EE2">>>>, <<"U+1EE5", <<"U+1EE4">>>>, <<"U+1EE7", <<"U+1EE6">>>>,
    <<"U+1EE9", <<"U+1EE8">>>>, <<"U+1EEB", <<"U+1EEA">>>>, <<"U+1EED", <<"U+1EEC">>>>,
    <<"U+1EEF", <<"U+1EEE">>>>, <<"U+1EF1", <<"U+1EF0">>>>, <<"U+1EF3", <<"U+1EF2">>>>,
    <<"U+1EF5", <<"U+1EF4">>>>, <<"U+1EF7", <<"U+1EF6">>>>, <<"U+1EF9", <<"U+1EF8">>>>,
    <<"U+1EFB", <<"U+1EFA">>>>, <<"U+1EFD", <<"U+1EFC">>>>, <<"U+1EFF", <<"U+1EFE">>>>,
    <<"U+1F00", <<"U+1F08">>>>, <<"U+1F01", <<"U+1F09">>>>, <<"U+1F02", <<"U+1F0A">>>>,
    <<"U+1F03", <<"U+1F0B">>>>, <<"U+1F04", <<"U+1F0C">>>>, <<"U+1F05", <<"U+1F0D">>>>,
    <<"U+1F06", <<"U+1F0E">>>>, <<"U+1F07", <<"U+1F0F">>>>, <<"U+1F10", <<"U+1F18">>>>,
    <<"U+1F11", <<"U+1F19">>>>, <<"U+1F12", <<"U+1F1A">>>>, <<"U+1F13", <<"U+1F1B">>>>,
    <<"U+1F14", <<"U+1F1C">>>>, <<"U+1F15", <<"U+1F1D">>>>, <<"U+1F20", <<"U+1F28">>>>,
    <<"U+1F21", <<"U+1F29">>>>, <<"U+1F22", <<"U+1F2A">>>>, <<"U+1F23", <<"U+1F2B">>>>,
    <<"U+1F24", <<"U+1F2C">>>>, <<"U+1F25", <<"U+1F2D">>>>, <<"U+1F26", <<"U+1F2E">>>>,
    <<"U+1F27", <<"U+1F2F">>>>, <<"U+1F30", <<"U+1F38">>>>, <<"U+1F31", <<"U+1F39">>>>,
    <<"U+1F32", <<"U+1F3A">>>>, <<"U+1F33", <<"U+1F3B">>>>, <<"U+1F34", <<"U+1F3C">>>>,
    <<"U+1F35", <<"U+1F3D">>>>, <<"U+1F36", <<"U+1F3E">>>>, <<"U+1F37", <<"U+1F3F">>>>,
    <<"U+1F40", <<"U+1F48">>>>, <<"U+1F41", <<"U+1F49">>>>, <<"U+1F42", <<"U+1F4A">>>>,
    <<"U+1F43", <<"U+1F4B">>>>, <<"U+1F44", <<"U+1F4C">>>>, <<"U+1F45", <<"U+1F4D">>>>,
    <<"U+1F50", <<"U+03A5", "U+0313">>>>, <<"U+1F51", <<"U+1F59">>>>,
    <<"U+1F52", <<"U+03A5", "U+0313", "U+0300">>>>, <<"U+1F53", <<"U+1F5B">>>>,
    <<"U+1F54", <<"U+03A5", "U+0313", "U+0301">>>>, <<"U+1F55", <<"U+1F5D">>>>,
    <<"U+1F56", <<"U+03A5", "U+0313", "U+0342">>>>, <<"U+1F57", <<"U+1F5F">>>>,
    <<"U+1F60", <<"U+1F68">>>>, <<"U+1F61", <<"U+1F69">>>>, <<"U+1F62", <<"U+1F6A">>>>,
    <<"U+1F63", <<"U+1F6B">>>>, <<"U+1F64", <<"U+1F6C">>>>, <<"U+1F65", <<"U+1F6D">>>>,
    <<"U+1F66", <<"U+1F6E">>>>, <<"U+1F67", <<"U+1F6F">>>>, <<"U+1F70", <<"U+1FBA">>>>,
    <<"U+1F71", <<"U+1FBB">>>>, <<"U+1F72", <<"U+1FC8">>>>, <<"U+1F73", <<"U+1FC9">>>>,
    <<"U+1F74", <<"U+1FCA">>>>, <<"U+1F75", <<"U+1FCB">>>>, <<"U+1F76", <<"U+1FDA">>>>,
    <<"U+1F77", <<"U+1FDB">>>>, <<"U+1F78", <<"U+1FF8">>>>, <<"U+1F79", <<"U+1FF9">>>>,
    <<"U+1F7A", <<"U+1FEA">>>>, <<"U+1F7B", <<"U+1FEB">>>>, <<"U+1F7C", <<"U+1FFA">>>>,
    <<"U+1F7D", <<"U+1FFB">>>>, <<"U+1F80", <<"U+1F08", "U+0399">>>>,
    <<"U+1F81", <<"U+1F09", "U+0399">>>>, <<"U+1F82", <<"U+1F0A", "U+0399">>>>,
    <<"U+1F83", <<"U+1F0B", "U+0399">>>>, <<"U+1F84", <<"U+1F0C", "U+0399">>>>,
    <<"U+1F85", <<"U+1F0D", "U+0399">>>>, <<"U+1F86", <<"U+1F0E", "U+0399">>>>,
    <<"U+1F87", <<"U+1F0F", "U+0399">>>>, <<"U+1F88", <<"U+1F08", "U+0399">>>>,
    <<"U+1F89", <<"U+1F09", "U+0399">>>>, <<"U+1F8A", <<"U+1F0A", "U+0399">>>>,
    <<"U+1F8B", <<"U+1F0B", "U+0399">>>>, <<"U+1F8C", <<"U+1F0C", "U+0399">>>>,
    <<"U+1F8D", <<"U+1F0D", "U+0399">>>>, <<"U+1F8E", <<"U+1F0E", "U+0399">>>>,
    <<"U+1F8F", <<"U+1F0F", "U+0399">>>>, <<"U+1F90", <<"U+1F28", "U+0399">>>>,
    <<"U+1F91", <<"U+1F29", "U+0399">>>>, <<"U+1F92", <<"U+1F2A", "U+0399">>>>,
    <<"U+1F93", <<"U+1F2B", "U+0399">>>>, <<"U+1F94", <<"U+1F2C", "U+0399">>>>,
    <<"U+1F95", <<"U+1F2D", "U+0399">>>>, <<"U+1F96", <<"U+1F2E", "U+0399">>>>,
    <<"U+1F97", <<"U+1F2F", "U+0399">>>>, <<"U+1F98", <<"U+1F28", "U+0399">>>>,
    <<"U+1F99", <<"U+1F29", "U+0399">>>>, <<"U+1F9A", <<"U+1F2A", "U+0399">>>>,
    <<"U+1F9B", <<"U+1F2B", "U+0399">>>>, <<"U+1F9C", <<"U+1F2C", "U+0399">>>>,
    <<"U+1F9D", <<"U+1F2D", "U+0399">>>>, <<"U+1F9E", <<"U+1F2E", "U+0399">>>>,
    <<"U+1F9F", <<"U+1F2F", "U+0399">>>>, <<"U+1FA0", <<"U+1F68", "U+0399">>>>,
    <<"U+1FA1", <<"U+1F69", "U+0399">>>>, <<"U+1FA2", <<"U+1F6A", "U+0399">>>>,
    <<"U+1FA3", <<"U+1F6B", "U+0399">>>>, <<"U+1FA4", <<"U+1F6C", "U+0399">>>>,
    <<"U+1FA5", <<"U+1F6D", "U+0399">>>>, <<"U+1FA6", <<"U+1F6E", "U+0399">>>>,
    <<"U+1FA7", <<"U+1F6F", "U+0399">>>>, <<"U+1FA8", <<"U+1F68", "U+0399">>>>,
    <<"U+1FA9", <<"U+1F69", "U+0399">>>>, <<"U+1FAA", <<"U+1F6A", "U+0399">>>>,
    <<"U+1FAB", <<"U+1F6B", "U+0399">>>>, <<"U+1FAC", <<"U+1F6C", "U+0399">>>>,
    <<"U+1FAD", <<"U+1F6D", "U+0399">>>>, <<"U+1FAE", <<"U+1F6E", "U+0399">>>>,
    <<"U+1FAF", <<"U+1F6F", "U+0399">>>>, <<"U+1FB0", <<"U+1FB8">>>>, <<"U+1FB1", <<"U+1FB9">>>>,
    <<"U+1FB2", <<"U+1FBA", "U+0399">>>>, <<"U+1FB3", <<"U+0391", "U+0399">>>>,
    <<"U+1FB4", <<"U+0386", "U+0399">>>>, <<"U+1FB6", <<"U+0391", "U+0342">>>>,
    <<"U+1FB7", <<"U+0391", "U+0342", "U+0399">>>>, <<"U+1FBC", <<"U+0391", "U+0399">>>>,
    <<"U+1FBE", <<"U+0399">>>>, <<"U+1FC2", <<"U+1FCA", "U+0399">>>>,
    <<"U+1FC3", <<"U+0397", "U+0399">>>>, <<"U+1FC4", <<"U+0389", "U+0399">>>>,
    <<"U+1FC6", <<"U+0397", "U+0342">>>>, <<"U+1FC7", <<"U+0397", "U+0342", "U+0399">>>>,
    <<"U+1FCC", <<"U+0397", "U+0399">>>>, <<"U+1FD0", <<"U+1FD8">>>>, <<"U+1FD1", <<"U+1FD9">>>>,
    <<"U+1FD2", <<"U+0399", "U+0308", "U+0300">>>>, <<"U+1FD3", <<"U+0399", "U+0308", "U+0301">>>>,
    <<"U+1FD6", <<"U+0399", "U+0342">>>>, <<"U+1FD7", <<"U+0399", "U+0308", "U+0342">>>>,
    <<"U+1FE0", <<"U+1FE8">>>>, <<"U+1FE1", <<"U+1FE9">>>>,
    <<"U+1FE2", <<"U+03A5", "U+0308", "U+0300">>>>, <<"U+1FE3", <<"U+03A5", "U+0308", "U+0301">>>>,
    <<"U+1FE4", <<"U+03A1", "U+0313">>>>, <<"U+1FE5", <<"U+1FEC">>>>,
    <<"U+1FE6", <<"U+03A5", "U+0342">>>>, <<"U+1FE7", <<"U+03A5", "U+0308", "U+0342">>>>,
    <<"U+1FF2", <<"U+1FFA", "U+0399">>>>, <<"U+1FF3", <<"U+03A9", "U+0399">>>>,
    <<"U+1FF4", <<"U+038F", "U+0399">>>>, <<"U+1FF6", <<"U+03A9", "U+0342">>>>,
    <<"U+1FF7", <<"U+03A9", "U+0342", "U+0399">>>>, <<"U+1FFC", <<"U+03A9", "U+0399">>>>,
    <<"U+214E", <<"U+2132">>>>, <<"U+2170", <<"U+2160">>>>, <<"U+2171", <<"U+2161">>>>,
    <<"U+2172", <<"U+2162">>>>, <<"U+2173", <<"U+2163">>>>, <<"U+2174", <<"U+2164">>>>,
    <<"U+2175", <<"U+2165">>>>, <<"U+2176", <<"U+2166">>>>, <<"U+2177", <<"U+2167">>>>,
    <<"U+2178", <<"U+2168">>>>, <<"U+2179", <<"U+2169">>>>, <<"U+217A", <<"U+216A">>>>,
    <<"U+217B", <<"U+216B">>>>, <<"U+217C", <<"U+216C">>>>, <<"U+217D", <<"U+216D">>>>,
    <<"U+217E", <<"U+216E">>>>, <<"U+217F", <<"U+216F">>>>, <<"U+2184", <<"U+2183">>>>,
    <<"U+24D0", <<"U+24B6">>>>, <<"U+24D1", <<"U+24B7">>>>, <<"U+24D2", <<"U+24B8">>>>,
    <<"U+24D3", <<"U+24B9">>>>, <<"U+24D4", <<"U+24BA">>>>, <<"U+24D5", <<"U+24BB">>>>,
    <<"U+24D6", <<"U+24BC">>>>, <<"U+24D7", <<"U+24BD">>>>, <<"U+24D8", <<"U+24BE">>>>,
    <<"U+24D9", <<"U+24BF">>>>, <<"U+24DA", <<"U+24C0">>>>, <<"U+24DB", <<"U+24C1">>>>,
    <<"U+24DC", <<"U+24C2">>>>, <<"U+24DD", <<"U+24C3">>>>, <<"U+24DE", <<"U+24C4">>>>,
    <<"U+24DF", <<"U+24C5">>>>, <<"U+24E0", <<"U+24C6">>>>, <<"U+24E1", <<"U+24C7">>>>,
    <<"U+24E2", <<"U+24C8">>>>, <<"U+24E3", <<"U+24C9">>>>, <<"U+24E4", <<"U+24CA">>>>,
    <<"U+24E5", <<"U+24CB">>>>, <<"U+24E6", <<"U+24CC">>>>, <<"U+24E7", <<"U+24CD">>>>,
    <<"U+24E8", <<"U+24CE">>>>, <<"U+24E9", <<"U+24CF">>>>, <<"U+2C30", <<"U+2C00">>>>,
    <<"U+2C31", <<"U+2C01">>>>, <<"U+2C32", <<"U+2C02">>>>, <<"U+2C33", <<"U+2C03">>>>,
    <<"U+2C34", <<"U+2C04">>>>, <<"U+2C35", <<"U+2C05">>>>, <<"U+2C36", <<"U+2C06">>>>,
    <<"U+2C37", <<"U+2C07">>>>, <<"U+2C38", <<"U+2C08">>>>, <<"U+2C39", <<"U+2C09">>>>,
    <<"U+2C3A", <<"U+2C0A">>>>, <<"U+2C3B", <<"U+2C0B">>>>, <<"U+2C3C", <<"U+2C0C">>>>,
    <<"U+2C3D", <<"U+2C0D">>>>, <<"U+2C3E", <<"U+2C0E">>>>, <<"U+2C3F", <<"U+2C0F">>>>,
    <<"U+2C40", <<"U+2C10">>>>, <<"U+2C41", <<"U+2C11">>>>, <<"U+2C42", <<"U+2C12">>>>,
    <<"U+2C43", <<"U+2C13">>>>, <<"U+2C44", <<"U+2C14">>>>, <<"U+2C45", <<"U+2C15">>>>,
    <<"U+2C46", <<"U+2C16">>>>, <<"U+2C47", <<"U+2C17">>>>, <<"U+2C48", <<"U+2C18">>>>,
    <<"U+2C49", <<"U+2C19">>>>, <<"U+2C4A", <<"U+2C1A">>>>, <<"U+2C4B", <<"U+2C1B">>>>,
    <<"U+2C4C", <<"U+2C1C">>>>, <<"U+2C4D", <<"U+2C1D">>>>, <<"U+2C4E", <<"U+2C1E">>>>,
    <<"U+2C4F", <<"U+2C1F">>>>, <<"U+2C50", <<"U+2C20">>>>, <<"U+2C51", <<"U+2C21">>>>,
    <<"U+2C52", <<"U+2C22">>>>, <<"U+2C53", <<"U+2C23">>>>, <<"U+2C54", <<"U+2C24">>>>,
    <<"U+2C55", <<"U+2C25">>>>, <<"U+2C56", <<"U+2C26">>>>, <<"U+2C57", <<"U+2C27">>>>,
    <<"U+2C58", <<"U+2C28">>>>, <<"U+2C59", <<"U+2C29">>>>, <<"U+2C5A", <<"U+2C2A">>>>,
    <<"U+2C5B", <<"U+2C2B">>>>, <<"U+2C5C", <<"U+2C2C">>>>, <<"U+2C5D", <<"U+2C2D">>>>,
    <<"U+2C5E", <<"U+2C2E">>>>, <<"U+2C5F", <<"U+2C2F">>>>, <<"U+2C61", <<"U+2C60">>>>,
    <<"U+2C65", <<"U+023A">>>>, <<"U+2C66", <<"U+023E">>>>, <<"U+2C68", <<"U+2C67">>>>,
    <<"U+2C6A", <<"U+2C69">>>>, <<"U+2C6C", <<"U+2C6B">>>>, <<"U+2C73", <<"U+2C72">>>>,
    <<"U+2C76", <<"U+2C75">>>>, <<"U+2C81", <<"U+2C80">>>>, <<"U+2C83", <<"U+2C82">>>>,
    <<"U+2C85", <<"U+2C84">>>>, <<"U+2C87", <<"U+2C86">>>>, <<"U+2C89", <<"U+2C88">>>>,
    <<"U+2C8B", <<"U+2C8A">>>>, <<"U+2C8D", <<"U+2C8C">>>>, <<"U+2C8F", <<"U+2C8E">>>>,
    <<"U+2C91", <<"U+2C90">>>>, <<"U+2C93", <<"U+2C92">>>>, <<"U+2C95", <<"U+2C94">>>>,
    <<"U+2C97", <<"U+2C96">>>>, <<"U+2C99", <<"U+2C98">>>>, <<"U+2C9B", <<"U+2C9A">>>>,
    <<"U+2C9D", <<"U+2C9C">>>>, <<"U+2C9F", <<"U+2C9E">>>>, <<"U+2CA1", <<"U+2CA0">>>>,
    <<"U+2CA3", <<"U+2CA2">>>>, <<"U+2CA5", <<"U+2CA4">>>>, <<"U+2CA7", <<"U+2CA6">>>>,
    <<"U+2CA9", <<"U+2CA8">>>>, <<"U+2CAB", <<"U+2CAA">>>>, <<"U+2CAD", <<"U+2CAC">>>>,
    <<"U+2CAF", <<"U+2CAE">>>>, <<"U+2CB1", <<"U+2CB0">>>>, <<"U+2CB3", <<"U+2CB2">>>>,
    <<"U+2CB5", <<"U+2CB4">>>>, <<"U+2CB7", <<"U+2CB6">>>>, <<"U+2CB9", <<"U+2CB8">>>>,
    <<"U+2CBB", <<"U+2CBA">>>>, <<"U+2CBD", <<"U+2CBC">>>>, <<"U+2CBF", <<"U+2CBE">>>>,
    <<"U+2CC1", <<"U+2CC0">>>>, <<"U+2CC3", <<"U+2CC2">>>>, <<"U+2CC5", <<"U+2CC4">>>>,
    <<"U+2CC7", <<"U+2CC6">>>>, <<"U+2CC9", <<"U+2CC8">>>>, <<"U+2CCB", <<"U+2CCA">>>>,
    <<"U+2CCD", <<"U+2CCC">>>>, <<"U+2CCF", <<"U+2CCE">>>>, <<"U+2CD1", <<"U+2CD0">>>>,
    <<"U+2CD3", <<"U+2CD2">>>>, <<"U+2CD5", <<"U+2CD4">>>>, <<"U+2CD7", <<"U+2CD6">>>>,
    <<"U+2CD9", <<"U+2CD8">>>>, <<"U+2CDB", <<"U+2CDA">>>>, <<"U+2CDD", <<"U+2CDC">>>>,
    <<"U+2CDF", <<"U+2CDE">>>>, <<"U+2CE1", <<"U+2CE0">>>>, <<"U+2CE3", <<"U+2CE2">>>>,
    <<"U+2CEC", <<"U+2CEB">>>>, <<"U+2CEE", <<"U+2CED">>>>, <<"U+2CF3", <<"U+2CF2">>>>,
    <<"U+2D00", <<"U+10A0">>>>, <<"U+2D01", <<"U+10A1">>>>, <<"U+2D02", <<"U+10A2">>>>,
    <<"U+2D03", <<"U+10A3">>>>, <<"U+2D04", <<"U+10A4">>>>, <<"U+2D05", <<"U+10A5">>>>,
    <<"U+2D06", <<"U+10A6">>>>, <<"U+2D07", <<"U+10A7">>>>, <<"U+2D08", <<"U+10A8">>>>,
    <<"U+2D09", <<"U+10A9">>>>, <<"U+2D0A", <<"U+10AA">>>>, <<"U+2D0B", <<"U+10AB">>>>,
    <<"U+2D0C", <<"U+10AC">>>>, <<"U+2D0D", <<"U+10AD">>>>, <<"U+2D0E", <<"U+10AE">>>>,
    <<"U+2D0F", <<"U+10AF">>>>, <<"U+2D10", <<"U+10B0">>>>, <<"U+2D11", <<"U+10B1">>>>,
    <<"U+2D12", <<"U+10B2">>>>, <<"U+2D13", <<"U+10B3">>>>, <<"U+2D14", <<"U+10B4">>>>,
    <<"U+2D15", <<"U+10B5">>>>, <<"U+2D16", <<"U+10B6">>>>, <<"U+2D17", <<"U+10B7">>>>,
    <<"U+2D18", <<"U+10B8">>>>, <<"U+2D19", <<"U+10B9">>>>, <<"U+2D1A", <<"U+10BA">>>>,
    <<"U+2D1B", <<"U+10BB">>>>, <<"U+2D1C", <<"U+10BC">>>>, <<"U+2D1D", <<"U+10BD">>>>,
    <<"U+2D1E", <<"U+10BE">>>>, <<"U+2D1F", <<"U+10BF">>>>, <<"U+2D20", <<"U+10C0">>>>,
    <<"U+2D21", <<"U+10C1">>>>, <<"U+2D22", <<"U+10C2">>>>, <<"U+2D23", <<"U+10C3">>>>,
    <<"U+2D24", <<"U+10C4">>>>, <<"U+2D25", <<"U+10C5">>>>, <<"U+2D27", <<"U+10C7">>>>,
    <<"U+2D2D", <<"U+10CD">>>>, <<"U+A641", <<"U+A640">>>>, <<"U+A643", <<"U+A642">>>>,
    <<"U+A645", <<"U+A644">>>>, <<"U+A647", <<"U+A646">>>>, <<"U+A649", <<"U+A648">>>>,
    <<"U+A64B", <<"U+A64A">>>>, <<"U+A64D", <<"U+A64C">>>>, <<"U+A64F", <<"U+A64E">>>>,
    <<"U+A651", <<"U+A650">>>>, <<"U+A653", <<"U+A652">>>>, <<"U+A655", <<"U+A654">>>>,
    <<"U+A657", <<"U+A656">>>>, <<"U+A659", <<"U+A658">>>>, <<"U+A65B", <<"U+A65A">>>>,
    <<"U+A65D", <<"U+A65C">>>>, <<"U+A65F", <<"U+A65E">>>>, <<"U+A661", <<"U+A660">>>>,
    <<"U+A663", <<"U+A662">>>>, <<"U+A665", <<"U+A664">>>>, <<"U+A667", <<"U+A666">>>>,
    <<"U+A669", <<"U+A668">>>>, <<"U+A66B", <<"U+A66A">>>>, <<"U+A66D", <<"U+A66C">>>>,
    <<"U+A681", <<"U+A680">>>>, <<"U+A683", <<"U+A682">>>>, <<"U+A685", <<"U+A684">>>>,
    <<"U+A687", <<"U+A686">>>>, <<"U+A689", <<"U+A688">>>>, <<"U+A68B", <<"U+A68A">>>>,
    <<"U+A68D", <<"U+A68C">>>>, <<"U+A68F", <<"U+A68E">>>>, <<"U+A691", <<"U+A690">>>>,
    <<"U+A693", <<"U+A692">>>>, <<"U+A695", <<"U+A694">>>>, <<"U+A697", <<"U+A696">>>>,
    <<"U+A699", <<"U+A698">>>>, <<"U+A69B", <<"U+A69A">>>>, <<"U+A723", <<"U+A722">>>>,
    <<"U+A725", <<"U+A724">>>>, <<"U+A727", <<"U+A726">>>>, <<"U+A729", <<"U+A728">>>>,
    <<"U+A72B", <<"U+A72A">>>>, <<"U+A72D", <<"U+A72C">>>>, <<"U+A72F", <<"U+A72E">>>>,
    <<"U+A733", <<"U+A732">>>>, <<"U+A735", <<"U+A734">>>>, <<"U+A737", <<"U+A736">>>>,
    <<"U+A739", <<"U+A738">>>>, <<"U+A73B", <<"U+A73A">>>>, <<"U+A73D", <<"U+A73C">>>>,
    <<"U+A73F", <<"U+A73E">>>>, <<"U+A741", <<"U+A740">>>>, <<"U+A743", <<"U+A742">>>>,
    <<"U+A745", <<"U+A744">>>>, <<"U+A747", <<"U+A746">>>>, <<"U+A749", <<"U+A748">>>>,
    <<"U+A74B", <<"U+A74A">>>>, <<"U+A74D", <<"U+A74C">>>>, <<"U+A74F", <<"U+A74E">>>>,
    <<"U+A751", <<"U+A750">>>>, <<"U+A753", <<"U+A752">>>>, <<"U+A755", <<"U+A754">>>>,
    <<"U+A757", <<"U+A756">>>>, <<"U+A759", <<"U+A758">>>>, <<"U+A75B", <<"U+A75A">>>>,
    <<"U+A75D", <<"U+A75C">>>>, <<"U+A75F", <<"U+A75E">>>>, <<"U+A761", <<"U+A760">>>>,
    <<"U+A763", <<"U+A762">>>>, <<"U+A765", <<"U+A764">>>>, <<"U+A767", <<"U+A766">>>>,
    <<"U+A769", <<"U+A768">>>>, <<"U+A76B", <<"U+A76A">>>>, <<"U+A76D", <<"U+A76C">>>>,
    <<"U+A76F", <<"U+A76E">>>>, <<"U+A77A", <<"U+A779">>>>, <<"U+A77C", <<"U+A77B">>>>,
    <<"U+A77F", <<"U+A77E">>>>, <<"U+A781", <<"U+A780">>>>, <<"U+A783", <<"U+A782">>>>,
    <<"U+A785", <<"U+A784">>>>, <<"U+A787", <<"U+A786">>>>, <<"U+A78C", <<"U+A78B">>>>,
    <<"U+A791", <<"U+A790">>>>, <<"U+A793", <<"U+A792">>>>, <<"U+A794", <<"U+A7C4">>>>,
    <<"U+A797", <<"U+A796">>>>, <<"U+A799", <<"U+A798">>>>, <<"U+A79B", <<"U+A79A">>>>,
    <<"U+A79D", <<"U+A79C">>>>, <<"U+A79F", <<"U+A79E">>>>, <<"U+A7A1", <<"U+A7A0">>>>,
    <<"U+A7A3", <<"U+A7A2">>>>, <<"U+A7A5", <<"U+A7A4">>>>, <<"U+A7A7", <<"U+A7A6">>>>,
    <<"U+A7A9", <<"U+A7A8">>>>, <<"U+A7B5", <<"U+A7B4">>>>, <<"U+A7B7", <<"U+A7B6">>>>,
    <<"U+A7B9", <<"U+A7B8">>>>, <<"U+A7BB", <<"U+A7BA">>>>, <<"U+A7BD", <<"U+A7BC">>>>,
    <<"U+A7BF", <<"U+A7BE">>>>, <<"U+A7C1", <<"U+A7C0">>>>, <<"U+A7C3", <<"U+A7C2">>>>,
    <<"U+A7C8", <<"U+A7C7">>>>, <<"U+A7CA", <<"U+A7C9">>>>, <<"U+A7CD", <<"U+A7CC">>>>,
    <<"U+A7CF", <<"U+A7CE">>>>, <<"U+A7D1", <<"U+A7D0">>>>, <<"U+A7D3", <<"U+A7D2">>>>,
    <<"U+A7D5", <<"U+A7D4">>>>, <<"U+A7D7", <<"U+A7D6">>>>, <<"U+A7D9", <<"U+A7D8">>>>,
    <<"U+A7DB", <<"U+A7DA">>>>, <<"U+A7F6", <<"U+A7F5">>>>, <<"U+AB53", <<"U+A7B3">>>>,
    <<"U+AB70", <<"U+13A0">>>>, <<"U+AB71", <<"U+13A1">>>>, <<"U+AB72", <<"U+13A2">>>>,
    <<"U+AB73", <<"U+13A3">>>>, <<"U+AB74", <<"U+13A4">>>>, <<"U+AB75", <<"U+13A5">>>>,
    <<"U+AB76", <<"U+13A6">>>>, <<"U+AB77", <<"U+13A7">>>>, <<"U+AB78", <<"U+13A8">>>>,
    <<"U+AB79", <<"U+13A9">>>>, <<"U+AB7A", <<"U+13AA">>>>, <<"U+AB7B", <<"U+13AB">>>>,
    <<"U+AB7C", <<"U+13AC">>>>, <<"U+AB7D", <<"U+13AD">>>>, <<"U+AB7E", <<"U+13AE">>>>,
    <<"U+AB7F", <<"U+13AF">>>>, <<"U+AB80", <<"U+13B0">>>>, <<"U+AB81", <<"U+13B1">>>>,
    <<"U+AB82", <<"U+13B2">>>>, <<"U+AB83", <<"U+13B3">>>>, <<"U+AB84", <<"U+13B4">>>>,
    <<"U+AB85", <<"U+13B5">>>>, <<"U+AB86", <<"U+13B6">>>>, <<"U+AB87", <<"U+13B7">>>>,
    <<"U+AB88", <<"U+13B8">>>>, <<"U+AB89", <<"U+13B9">>>>, <<"U+AB8A", <<"U+13BA">>>>,
    <<"U+AB8B", <<"U+13BB">>>>, <<"U+AB8C", <<"U+13BC">>>>, <<"U+AB8D", <<"U+13BD">>>>,
    <<"U+AB8E", <<"U+13BE">>>>, <<"U+AB8F", <<"U+13BF">>>>, <<"U+AB90", <<"U+13C0">>>>,
    <<"U+AB91", <<"U+13C1">>>>, <<"U+AB92", <<"U+13C2">>>>, <<"U+AB93", <<"U+13C3">>>>,
    <<"U+AB94", <<"U+13C4">>>>, <<"U+AB95", <<"U+13C5">>>>, <<"U+AB96", <<"U+13C6">>>>,
    <<"U+AB97", <<"U+13C7">>>>, <<"U+AB98", <<"U+13C8">>>>, <<"U+AB99", <<"U+13C9">>>>,
    <<"U+AB9A", <<"U+13CA">>>>, <<"U+AB9B", <<"U+13CB">>>>, <<"U+AB9C", <<"U+13CC">>>>,
    <<"U+AB9D", <<"U+13CD">>>>, <<"U+AB9E", <<"U+13CE">>>>, <<"U+AB9F", <<"U+13CF">>>>,
    <<"U+ABA0", <<"U+13D0">>>>, <<"U+ABA1", <<"U+13D1">>>>, <<"U+ABA2", <<"U+13D2">>>>,
    <<"U+ABA3", <<"U+13D3">>>>, <<"U+ABA4", <<"U+13D4">>>>, <<"U+ABA5", <<"U+13D5">>>>,
    <<"U+ABA6", <<"U+13D6">>>>, <<"U+ABA7", <<"U+13D7">>>>, <<"U+ABA8", <<"U+13D8">>>>,
    <<"U+ABA9", <<"U+13D9">>>>, <<"U+ABAA", <<"U+13DA">>>>, <<"U+ABAB", <<"U+13DB">>>>,
    <<"U+ABAC", <<"U+13DC">>>>, <<"U+ABAD", <<"U+13DD">>>>, <<"U+ABAE", <<"U+13DE">>>>,
    <<"U+ABAF", <<"U+13DF">>>>, <<"U+ABB0", <<"U+13E0">>>>, <<"U+ABB1", <<"U+13E1">>>>,
    <<"U+ABB2", <<"U+13E2">>>>, <<"U+ABB3", <<"U+13E3">>>>, <<"U+ABB4", <<"U+13E4">>>>,
    <<"U+ABB5", <<"U+13E5">>>>, <<"U+ABB6", <<"U+13E6">>>>, <<"U+ABB7", <<"U+13E7">>>>,
    <<"U+ABB8", <<"U+13E8">>>>, <<"U+ABB9", <<"U+13E9">>>>, <<"U+ABBA", <<"U+13EA">>>>,
    <<"U+ABBB", <<"U+13EB">>>>, <<"U+ABBC", <<"U+13EC">>>>, <<"U+ABBD", <<"U+13ED">>>>,
    <<"U+ABBE", <<"U+13EE">>>>, <<"U+ABBF", <<"U+13EF">>>>, <<"U+FB00", <<"F", "F">>>>,
    <<"U+FB01", <<"F", "I">>>>, <<"U+FB02", <<"F", "L">>>>, <<"U+FB03", <<"F", "F", "I">>>>,
    <<"U+FB04", <<"F", "F", "L">>>>, <<"U+FB05", <<"S", "T">>>>, <<"U+FB06", <<"S", "T">>>>,
    <<"U+FB13", <<"U+0544", "U+0546">>>>, <<"U+FB14", <<"U+0544", "U+0535">>>>,
    <<"U+FB15", <<"U+0544", "U+053B">>>>, <<"U+FB16", <<"U+054E", "U+0546">>>>,
    <<"U+FB17", <<"U+0544", "U+053D">>>>, <<"U+FF41", <<"U+FF21">>>>, <<"U+FF42", <<"U+FF22">>>>,
    <<"U+FF43", <<"U+FF23">>>>, <<"U+FF44", <<"U+FF24">>>>, <<"U+FF45", <<"U+FF25">>>>,
    <<"U+FF46", <<"U+FF26">>>>, <<"U+FF47", <<"U+FF27">>>>, <<"U+FF48", <<"U+FF28">>>>,
    <<"U+FF49", <<"U+FF29">>>>, <<"U+FF4A", <<"U+FF2A">>>>, <<"U+FF4B", <<"U+FF2B">>>>,
    <<"U+FF4C", <<"U+FF2C">>>>, <<"U+FF4D", <<"U+FF2D">>>>, <<"U+FF4E", <<"U+FF2E">>>>,
    <<"U+FF4F", <<"U+FF2F">>>>, <<"U+FF50", <<"U+FF30">>>>, <<"U+FF51", <<"U+FF31">>>>,
    <<"U+FF52", <<"U+FF32">>>>, <<"U+FF53", <<"U+FF33">>>>, <<"U+FF54", <<"U+FF34">>>>,
    <<"U+FF55", <<"U+FF35">>>>, <<"U+FF56", <<"U+FF36">>>>, <<"U+FF57", <<"U+FF37">>>>,
    <<"U+FF58", <<"U+FF38">>>>, <<"U+FF59", <<"U+FF39">>>>, <<"U+FF5A", <<"U+FF3A">>>>,
    <<"U+10428", <<"U+10400">>>>, <<"U+10429", <<"U+10401">>>>, <<"U+1042A", <<"U+10402">>>>,
    <<"U+1042B", <<"U+10403">>>>, <<"U+1042C", <<"U+10404">>>>, <<"U+1042D", <<"U+10405">>>>,
    <<"U+1042E", <<"U+10406">>>>, <<"U+1042F", <<"U+10407">>>>, <<"U+10430", <<"U+10408">>>>,
    <<"U+10431", <<"U+10409">>>>, <<"U+10432", <<"U+1040A">>>>, <<"U+10433", <<"U+1040B">>>>,
    <<"U+10434", <<"U+1040C">>>>, <<"U+10435", <<"U+1040D">>>>, <<"U+10436", <<"U+1040E">>>>,
    <<"U+10437", <<"U+1040F">>>>, <<"U+10438", <<"U+10410">>>>, <<"U+10439", <<"U+10411">>>>,
    <<"U+1043A", <<"U+10412">>>>, <<"U+1043B", <<"U+10413">>>>, <<"U+1043C", <<"U+10414">>>>,
    <<"U+1043D", <<"U+10415">>>>, <<"U+1043E", <<"U+10416">>>>, <<"U+1043F", <<"U+10417">>>>,
    <<"U+10440", <<"U+10418">>>>, <<"U+10441", <<"U+10419">>>>, <<"U+10442", <<"U+1041A">>>>,
    <<"U+10443", <<"U+1041B">>>>, <<"U+10444", <<"U+1041C">>>>, <<"U+10445", <<"U+1041D">>>>,
    <<"U+10446", <<"U+1041E">>>>, <<"U+10447", <<"U+1041F">>>>, <<"U+10448", <<"U+10420">>>>,
    <<"U+10449", <<"U+10421">>>>, <<"U+1044A", <<"U+10422">>>>, <<"U+1044B", <<"U+10423">>>>,
    <<"U+1044C", <<"U+10424">>>>, <<"U+1044D", <<"U+10425">>>>, <<"U+1044E", <<"U+10426">>>>,
    <<"U+1044F", <<"U+10427">>>>, <<"U+104D8", <<"U+104B0">>>>, <<"U+104D9", <<"U+104B1">>>>,
    <<"U+104DA", <<"U+104B2">>>>, <<"U+104DB", <<"U+104B3">>>>, <<"U+104DC", <<"U+104B4">>>>,
    <<"U+104DD", <<"U+104B5">>>>, <<"U+104DE", <<"U+104B6">>>>, <<"U+104DF", <<"U+104B7">>>>,
    <<"U+104E0", <<"U+104B8">>>>, <<"U+104E1", <<"U+104B9">>>>, <<"U+104E2", <<"U+104BA">>>>,
    <<"U+104E3", <<"U+104BB">>>>, <<"U+104E4", <<"U+104BC">>>>, <<"U+104E5", <<"U+104BD">>>>,
    <<"U+104E6", <<"U+104BE">>>>, <<"U+104E7", <<"U+104BF">>>>, <<"U+104E8", <<"U+104C0">>>>,
    <<"U+104E9", <<"U+104C1">>>>, <<"U+104EA", <<"U+104C2">>>>, <<"U+104EB", <<"U+104C3">>>>,
    <<"U+104EC", <<"U+104C4">>>>, <<"U+104ED", <<"U+104C5">>>>, <<"U+104EE", <<"U+104C6">>>>,
    <<"U+104EF", <<"U+104C7">>>>, <<"U+104F0", <<"U+104C8">>>>, <<"U+104F1", <<"U+104C9">>>>,
    <<"U+104F2", <<"U+104CA">>>>, <<"U+104F3", <<"U+104CB">>>>, <<"U+104F4", <<"U+104CC">>>>,
    <<"U+104F5", <<"U+104CD">>>>, <<"U+104F6", <<"U+104CE">>>>, <<"U+104F7", <<"U+104CF">>>>,
    <<"U+104F8", <<"U+104D0">>>>, <<"U+104F9", <<"U+104D1">>>>, <<"U+104FA", <<"U+104D2">>>>,
    <<"U+104FB", <<"U+104D3">>>>, <<"U+10597", <<"U+10570">>>>, <<"U+10598", <<"U+10571">>>>,
    <<"U+10599", <<"U+10572">>>>, <<"U+1059A", <<"U+10573">>>>, <<"U+1059B", <<"U+10574">>>>,
    <<"U+1059C", <<"U+10575">>>>, <<"U+1059D", <<"U+10576">>>>, <<"U+1059E", <<"U+10577">>>>,
    <<"U+1059F", <<"U+10578">>>>, <<"U+105A0", <<"U+10579">>>>, <<"U+105A1", <<"U+1057A">>>>,
    <<"U+105A3", <<"U+1057C">>>>, <<"U+105A4", <<"U+1057D">>>>, <<"U+105A5", <<"U+1057E">>>>,
    <<"U+105A6", <<"U+1057F">>>>, <<"U+105A7", <<"U+10580">>>>, <<"U+105A8", <<"U+10581">>>>,
    <<"U+105A9", <<"U+10582">>>>, <<"U+105AA", <<"U+10583">>>>, <<"U+105AB", <<"U+10584">>>>,
    <<"U+105AC", <<"U+10585">>>>, <<"U+105AD", <<"U+10586">>>>, <<"U+105AE", <<"U+10587">>>>,
    <<"U+105AF", <<"U+10588">>>>, <<"U+105B0", <<"U+10589">>>>, <<"U+105B1", <<"U+1058A">>>>,
    <<"U+105B3", <<"U+1058C">>>>, <<"U+105B4", <<"U+1058D">>>>, <<"U+105B5", <<"U+1058E">>>>,
    <<"U+105B6", <<"U+1058F">>>>, <<"U+105B7", <<"U+10590">>>>, <<"U+105B8", <<"U+10591">>>>,
    <<"U+105B9", <<"U+10592">>>>, <<"U+105BB", <<"U+10594">>>>, <<"U+105BC", <<"U+10595">>>>,
    <<"U+10CC0", <<"U+10C80">>>>, <<"U+10CC1", <<"U+10C81">>>>, <<"U+10CC2", <<"U+10C82">>>>,
    <<"U+10CC3", <<"U+10C83">>>>, <<"U+10CC4", <<"U+10C84">>>>, <<"U+10CC5", <<"U+10C85">>>>,
    <<"U+10CC6", <<"U+10C86">>>>, <<"U+10CC7", <<"U+10C87">>>>, <<"U+10CC8", <<"U+10C88">>>>,
    <<"U+10CC9", <<"U+10C89">>>>, <<"U+10CCA", <<"U+10C8A">>>>, <<"U+10CCB", <<"U+10C8B">>>>,
    <<"U+10CCC", <<"U+10C8C">>>>, <<"U+10CCD", <<"U+10C8D">>>>, <<"U+10CCE", <<"U+10C8E">>>>,
    <<"U+10CCF", <<"U+10C8F">>>>, <<"U+10CD0", <<"U+10C90">>>>, <<"U+10CD1", <<"U+10C91">>>>,
    <<"U+10CD2", <<"U+10C92">>>>, <<"U+10CD3", <<"U+10C93">>>>, <<"U+10CD4", <<"U+10C94">>>>,
    <<"U+10CD5", <<"U+10C95">>>>, <<"U+10CD6", <<"U+10C96">>>>, <<"U+10CD7", <<"U+10C97">>>>,
    <<"U+10CD8", <<"U+10C98">>>>, <<"U+10CD9", <<"U+10C99">>>>, <<"U+10CDA", <<"U+10C9A">>>>,
    <<"U+10CDB", <<"U+10C9B">>>>, <<"U+10CDC", <<"U+10C9C">>>>, <<"U+10CDD", <<"U+10C9D">>>>,
    <<"U+10CDE", <<"U+10C9E">>>>, <<"U+10CDF", <<"U+10C9F">>>>, <<"U+10CE0", <<"U+10CA0">>>>,
    <<"U+10CE1", <<"U+10CA1">>>>, <<"U+10CE2", <<"U+10CA2">>>>, <<"U+10CE3", <<"U+10CA3">>>>,
    <<"U+10CE4", <<"U+10CA4">>>>, <<"U+10CE5", <<"U+10CA5">>>>, <<"U+10CE6", <<"U+10CA6">>>>,
    <<"U+10CE7", <<"U+10CA7">>>>, <<"U+10CE8", <<"U+10CA8">>>>, <<"U+10CE9", <<"U+10CA9">>>>,
    <<"U+10CEA", <<"U+10CAA">>>>, <<"U+10CEB", <<"U+10CAB">>>>, <<"U+10CEC", <<"U+10CAC">>>>,
    <<"U+10CED", <<"U+10CAD">>>>, <<"U+10CEE", <<"U+10CAE">>>>, <<"U+10CEF", <<"U+10CAF">>>>,
    <<"U+10CF0", <<"U+10CB0">>>>, <<"U+10CF1", <<"U+10CB1">>>>, <<"U+10CF2", <<"U+10CB2">>>>,
    <<"U+10D70", <<"U+10D50">>>>, <<"U+10D71", <<"U+10D51">>>>, <<"U+10D72", <<"U+10D52">>>>,
    <<"U+10D73", <<"U+10D53">>>>, <<"U+10D74", <<"U+10D54">>>>, <<"U+10D75", <<"U+10D55">>>>,
    <<"U+10D76", <<"U+10D56">>>>, <<"U+10D77", <<"U+10D57">>>>, <<"U+10D78", <<"U+10D58">>>>,
    <<"U+10D79", <<"U+10D59">>>>, <<"U+10D7A", <<"U+10D5A">>>>, <<"U+10D7B", <<"U+10D5B">>>>,
    <<"U+10D7C", <<"U+10D5C">>>>, <<"U+10D7D", <<"U+10D5D">>>>, <<"U+10D7E", <<"U+10D5E">>>>,
    <<"U+10D7F", <<"U+10D5F">>>>, <<"U+10D80", <<"U+10D60">>>>, <<"U+10D81", <<"U+10D61">>>>,
    <<"U+10D82", <<"U+10D62">>>>, <<"U+10D83", <<"U+10D63">>>>, <<"U+10D84", <<"U+10D64">>>>,
    <<"U+10D85", <<"U+10D65">>>>, <<"U+118C0", <<"U+118A0">>>>, <<"U+118C1", <<"U+118A1">>>>,
    <<"U+118C2", <<"U+118A2">>>>, <<"U+118C3", <<"U+118A3">>>>, <<"U+118C4", <<"U+118A4">>>>,
    <<"U+118C5", <<"U+118A5">>>>, <<"U+118C6", <<"U+118A6">>>>, <<"U+118C7", <<"U+118A7">>>>,
    <<"U+118C8", <<"U+118A8">>>>, <<"U+118C9", <<"U+118A9">>>>, <<"U+118CA", <<"U+118AA">>>>,
    <<"U+118CB", <<"U+118AB">>>>, <<"U+118CC", <<"U+118AC">>>>, <<"U+118CD", <<"U+118AD">>>>,
    <<"U+118CE", <<"U+118AE">>>>, <<"U+118CF", <<"U+118AF">>>>, <<"U+118D0", <<"U+118B0">>>>,
    <<"U+118D1", <<"U+118B1">>>>, <<"U+118D2", <<"U+118B2">>>>, <<"U+118D3", <<"U+118B3">>>>,
    <<"U+118D4", <<"U+118B4">>>>, <<"U+118D5", <<"U+118B5">>>>, <<"U+118D6", <<"U+118B6">>>>,
    <<"U+118D7", <<"U+118B7">>>>, <<"U+118D8", <<"U+118B8">>>>, <<"U+118D9", <<"U+118B9">>>>,
    <<"U+118DA", <<"U+118BA">>>>, <<"U+118DB", <<"U+118BB">>>>, <<"U+118DC", <<"U+118BC">>>>,
    <<"U+118DD", <<"U+118BD">>>>, <<"U+118DE", <<"U+118BE">>>>, <<"U+118DF", <<"U+118BF">>>>,
    <<"U+16E60", <<"U+16E40">>>>, <<"U+16E61", <<"U+16E41">>>>, <<"U+16E62", <<"U+16E42">>>>,
    <<"U+16E63", <<"U+16E43">>>>, <<"U+16E64", <<"U+16E44">>>>, <<"U+16E65", <<"U+16E45">>>>,
    <<"U+16E66", <<"U+16E46">>>>, <<"U+16E67", <<"U+16E47">>>>, <<"U+16E68", <<"U+16E48">>>>,
    <<"U+16E69", <<"U+16E49">>>>, <<"U+16E6A", <<"U+16E4A">>>>, <<"U+16E6B", <<"U+16E4B">>>>,
    <<"U+16E6C", <<"U+16E4C">>>>, <<"U+16E6D", <<"U+16E4D">>>>, <<"U+16E6E", <<"U+16E4E">>>>,
    <<"U+16E6F", <<"U+16E4F">>>>, <<"U+16E70", <<"U+16E50">>>>, <<"U+16E71", <<"U+16E51">>>>,
    <<"U+16E72", <<"U+16E52">>>>, <<"U+16E73", <<"U+16E53">>>>, <<"U+16E74", <<"U+16E54">>>>,
    <<"U+16E75", <<"U+16E55">>>>, <<"U+16E76", <<"U+16E56">>>>, <<"U+16E77", <<"U+16E57">>>>,
    <<"U+16E78", <<"U+16E58">>>>, <<"U+16E79", <<"U+16E59">>>>, <<"U+16E7A", <<"U+16E5A">>>>,
    <<"U+16E7B", <<"U+16E5B">>>>, <<"U+16E7C", <<"U+16E5C">>>>, <<"U+16E7D", <<"U+16E5D">>>>,
    <<"U+16E7E", <<"U+16E5E">>>>, <<"U+16E7F", <<"U+16E5F">>>>, <<"U+16EBB", <<"U+16EA0">>>>,
    <<"U+16EBC", <<"U+16EA1">>>>, <<"U+16EBD", <<"U+16EA2">>>>, <<"U+16EBE", <<"U+16EA3">>>>,
    <<"U+16EBF", <<"U+16EA4">>>>, <<"U+16EC0", <<"U+16EA5">>>>, <<"U+16EC1", <<"U+16EA6">>>>,
    <<"U+16EC2", <<"U+16EA7">>>>, <<"U+16EC3", <<"U+16EA8">>>>, <<"U+16EC4", <<"U+16EA9">>>>,
    <<"U+16EC5", <<"U+16EAA">>>>, <<"U+16EC6", <<"U+16EAB">>>>, <<"U+16EC7", <<"U+16EAC">>>>,
    <<"U+16EC8", <<"U+16EAD">>>>, <<"U+16EC9", <<"U+16EAE">>>>, <<"U+16ECA", <<"U+16EAF">>>>,
    <<"U+16ECB", <<"U+16EB0">>>>, <<"U+16ECC", <<"U+16EB1">>>>, <<"U+16ECD", <<"U+16EB2">>>>,
    <<"U+16ECE", <<"U+16EB3">>>>, <<"U+16ECF", <<"U+16EB4">>>>, <<"U+16ED0", <<"U+16EB5">>>>,
    <<"U+16ED1", <<"U+16EB6">>>>, <<"U+16ED2", <<"U+16EB7">>>>, <<"U+16ED3", <<"U+16EB8">>>>,
    <<"U+1E922", <<"U+1E900">>>>, <<"U+1E923", <<"U+1E901">>>>, <<"U+1E924", <<"U+1E902">>>>,
    <<"U+1E925", <<"U+1E903">>>>, <<"U+1E926", <<"U+1E904">>>>, <<"U+1E927", <<"U+1E905">>>>,
    <<"U+1E928", <<"U+1E906">>>>, <<"U+1E929", <<"U+1E907">>>>, <<"U+1E92A", <<"U+1E908">>>>,
    <<"U+1E92B", <<"U+1E909">>>>, <<"U+1E92C", <<"U+1E90A">>>>, <<"U+1E92D", <<"U+1E90B">>>>,
    <<"U+1E92E", <<"U+1E90C">>>>, <<"U+1E92F", <<"U+1E90D">>>>, <<"U+1E930", <<"U+1E90E">>>>,
    <<"U+1E931", <<"U+1E90F">>>>, <<"U+1E932", <<"U+1E910">>>>, <<"U+1E933", <<"U+1E911">>>>,
    <<"U+1E934", <<"U+1E912">>>>, <<"U+1E935", <<"U+1E913">>>>, <<"U+1E936", <<"U+1E914">>>>,
    <<"U+1E937", <<"U+1E915">>>>, <<"U+1E938", <<"U+1E916">>>>, <<"U+1E939", <<"U+1E917">>>>,
    <<"U+1E93A", <<"U+1E918">>>>, <<"U+1E93B", <<"U+1E919">>>>, <<"U+1E93C", <<"U+1E91A">>>>,
    <<"U+1E93D", <<"U+1E91B">>>>, <<"U+1E93E", <<"U+1E91C">>>>, <<"U+1E93F", <<"U+1E91D">>>>,
    <<"U+1E940", <<"U+1E91E">>>>, <<"U+1E941", <<"U+1E91F">>>>, <<"U+1E942", <<"U+1E920">>>>,
    <<"U+1E943", <<"U+1E921">>>> >>

\* the upper case of each of those characters
UpperTable ==
    [c \in {UpperPairs[k][1] : k \in 1..Len(UpperPairs)} |->
        UpperPairs[CHOOSE k \in 1..Len(UpperPairs) : UpperPairs[k][1] = c][2]]

\* char::to_uppercase: the one or more chars of the upper case of c
UpperChar(c) ==
    IF \E k \in 1..Len(LowerCase) : LowerCase[k] = c
    THEN <<UpperCase[IndexOf(c, LowerCase)]>>
    ELSE IF c \in DOMAIN UpperTable THEN UpperTable[c]
    ELSE <<c>>

RECURSIVE to_uppercase(_)
\* str::to_uppercase: the upper cases of the chars of s, one after another
to_uppercase(s) ==
    IF s = <<>> THEN <<>> ELSE UpperChar(Head(s)) \o to_uppercase(Tail(s))

(***************************************************************************)
(* str::split, str::trim, str::trim_matches                                *)
(***************************************************************************)
\* the first position of sep in s, or Len(s)+1
FirstSep(s, sep) ==
    IF \E k \in 1..Len(s) : s[k] = sep
    THEN CHOOSE k \in 1..Len(s) : s[k] = sep /\ \A j \in 1..(k-1) : s[j] # sep
    ELSE Len(s) + 1

RECURSIVE split(_, _)
\* s.split(sep): always at least one piece; "" gives one empty piece
split(s, sep) ==
    LET k == FirstSep(s, sep)
    IN  IF k > Len(s) THEN <<s>>
        ELSE <<SubSeq(s, 1, k-1)>> \o split(SubSeq(s, k+1, Len(s)), sep)

\* s with the leading and trailing characters of set cs removed
TrimSet(s, cs) ==
    IF \A k \in 1..Len(s) : s[k] \in cs THEN <<>>
    ELSE LET lo == CHOOSE k \in 1..Len(s) :
                       s[k] \notin cs /\ \A j \in 1..(k-1) : s[j] \in cs
             hi == CHOOSE k \in 1..Len(s) :
                       s[k] \notin cs /\ \A j \in (k+1)..Len(s) : s[j] \in cs
         IN  SubSeq(s, lo, hi)

trim(s) == TrimSet(s, WhiteSpace)

\* removable_chars of line_to_period
removable_chars == {"'", "\"", " ", ","}

\* raw_value.trim().trim_matches(removable_chars)
clean_value(raw_value) == TrimSet(trim(raw_value), removable_chars)

(***************************************************************************)
(* Number parsing                                                          *)
(***************************************************************************)
RECURSIVE DigitsValue(_)
DigitsValue(ds) ==
    IF ds = <<>> THEN 0
    ELSE DigitsValue(SubSeq(ds, 1, Len(ds)-1)) * 10 + IndexOf(ds[Len(ds)], Digits) - 1

AllDigits(s) == \A k \in 1..Len(s) : IsDigit(s[k])

\* the numeral ds without its leading zeros
StripZeros(ds) ==
    IF \A k \in 1..Len(ds) : ds[k] = "0" THEN <<>>
    ELSE SubSeq(ds, CHOOSE k \in 1..Len(ds) :
                        ds[k] # "0" /\ \A j \in 1..(k-1) : ds[j] = "0",
                Len(ds))

RECURSIVE Pow10(_)
Pow10(n) == IF n = 0 THEN 1 ELSE 10 * Pow10(n - 1)

(***************************************************************************)
(* Dates                                                                   *)
(***************************************************************************)
\* February has 29 days in a leap year
DaysInMonth(y, m) ==
    IF m = 2 THEN (IF (y % 4 = 0 /\ y % 100 # 0) \/ y % 400 = 0 THEN 29 ELSE 28)
    ELSE IF m \in {4, 6, 9, 11} THEN 30 ELSE 31

\* days from 1970-01-01 to y-m-d in the proleptic Gregorian calendar
DaysFromCivil(y, m, d) ==
    LET yy == IF m <= 2 THEN y - 1 ELSE y
        era == yy \div 400
        yoe == yy - era * 400
        mp == (m + 9) % 12
        doy == (153 * mp + 2) \div 5 + d - 1
        doe == yoe * 365 + yoe \div 4 - yoe \div 100 + doy
    IN  era * 146097 + doe - 719468

\* the leading white space of s removed (str::trim_start)
SkipSpace(s) ==
    IF \A k \in 1..Len(s) : s[k] \in WhiteSpace THEN <<>>
    ELSE SubSeq(s, CHOOSE k \in 1..Len(s) :
                       s[k] \notin WhiteSpace /\ \A j \in 1..(k-1) : s[j] \in WhiteSpace,
                Len(s))

\* the number of leading digits of s, at most max
DigitRun(s, max) ==
    CHOOSE k \in 0..Min(max, Len(s)) :
        /\ \A j \in 1..k : IsDigit(s[j])
        /\ (k = Min(max, Len(s)) \/ ~IsDigit(s[k+1]))

\* the years of a chrono date
MaxYear == 262142
MinYear == 0 - MaxYear - 1

\* a numeral of more significant digits than this is no year
YearDigits == 6

\* the number of the first n characters of s, all digits, with the rest of
\* s; a numeral too long for a year is out of range in every field
TakeNumber(s, n, negative) ==
    IF n = 0 \/ Len(StripZeros(SubSeq(s, 1, n))) > YearDigits THEN Err
    ELSE [ok |-> TRUE,
          v |-> IF negative THEN 0 - DigitsValue(SubSeq(s, 1, n))
                ELSE DigitsValue(SubSeq(s, 1, n)),
          rest |-> SubSeq(s, n+1, Len(s))]

\* the text of a numeric field after its leading white space: a signed
\* field (the year) takes a sign and then all the digits that follow, and
\* without a sign, as an unsigned field does, 1..width digits, greedily
SignedNumber(t, width, signed) ==
    IF signed /\ t # <<>> /\ t[1] \in {"+", "-"}
    THEN TakeNumber(Tail(t), DigitRun(Tail(t), Len(t)), t[1] = "-")
    ELSE TakeNumber(t, DigitRun(t, width), FALSE)

\* a numeric field of a chrono format: white space is skipped before it
NumField(s, width, signed) == SignedNumber(SkipSpace(s), width, signed)

\* the digits %.3f reads after the point
FracDigits == 3

\* %.3f when parsing: nothing, or a point and exactly three digits, the
\* milliseconds.  (This is chrono 0.4.44; the manifest pins no release, and
\* releases before 0.4.32 read any number of digits after the point.)
FracField(s) ==
    IF s = <<>> \/ s[1] # "." THEN [ok |-> TRUE, v |-> 0, rest |-> s]
    ELSE IF DigitRun(Tail(s), FracDigits) < FracDigits THEN Err
    ELSE [ok |-> TRUE, v |-> DigitsValue(SubSeq(s, 2, FracDigits + 1)),
          rest |-> SubSeq(s, FracDigits + 2, Len(s))]

\* "%F %T%.3f" as the items chrono parses it by: a numeric field of at most
\* n digits (the year signed), a literal character, white space, the
\* fraction of a second
DateTimeFormat ==
    <<[num |-> 4, signed |-> TRUE], [lit |-> "-"], [num |-> 2, signed |-> FALSE],
      [lit |-> "-"], [num |-> 2, signed |-> FALSE], [space |-> TRUE],
      [num |-> 2, signed |-> FALSE], [lit |-> ":"], [num |-> 2, signed |-> FALSE],
      [lit |-> ":"], [num |-> 2, signed |-> FALSE], [frac |-> TRUE]>>

\* the outcome of a field f of the scan, continued on the rest of the items
ScanField(f, K(_, _)) == IF f.ok THEN K(f.v, f.rest) ELSE Err

RECURSIVE Scan(_, _, _)
\* the numbers of the fields of s, in the order of the items, or Err when
\* s does not match the items to its end
Scan(items, s, acc) ==
    IF items = <<>> THEN (IF s = <<>> THEN Ok(acc) ELSE Err)
    ELSE IF "num" \in DOMAIN items[1]
    THEN ScanField(NumField(s, items[1].num, items[1].signed),
                   LAMBDA v, rest : Scan(Tail(items), rest, Append(acc, v)))
    ELSE IF "lit" \in DOMAIN items[1]
    THEN (IF s # <<>> /\ s[1] = items[1].lit THEN Scan(Tail(items), Tail(s), acc) ELSE Err)
    ELSE IF "space" \in DOMAIN items[1]
    THEN Scan(Tail(items), SkipSpace(s), acc)
    ELSE ScanField(FracField(s),
                   LAMBDA v, rest : Scan(Tail(items), rest, Append(acc, v)))

MillisPerSecond == 1000
SecondsPerDay == 24 * 60 * 60
MillisPerDay == SecondsPerDay * MillisPerSecond

(***************************************************************************)
(* DateTime<Utc>, as chrono holds it: the day (here counted from           *)
(* 1970-01-01), the second of the day, and the fraction of the second in   *)
(* milliseconds (every source of an instant here has whole milliseconds).  *)
(* A leap second hh:mm:60 is the second hh:mm:59 with a fraction of        *)
(* MillisPerSecond or more.  A Duration is an integer, in milliseconds.    *)
(***************************************************************************)
DateTime(days, secs, frac) == [days |-> days, secs |-> secs, frac |-> frac]

\* the DateTime of a number of milliseconds since 1970-01-01T00:00:00Z
\* (never a leap second)
Instant(millis) ==
    DateTime(millis \div MillisPerDay,
             (millis % MillisPerDay) \div MillisPerSecond,
             millis % MillisPerSecond)

\* quotient and remainder of a by b > 0, rounded toward zero (/ and % of
\* Rust; Duration::num_seconds and Duration::subsec_nanos)
TruncDiv(a, b) == IF a >= 0 THEN a \div b ELSE 0 - ((0 - a) \div b)
TruncRem(a, b) == a - b * TruncDiv(a, b)

\* the second of the day and the days carried, of a count of seconds
WrapDay(dt, secs, frac) ==
    DateTime(dt.days + secs \div SecondsPerDay, secs % SecondsPerDay, frac)

\* the fraction brought back into a second, carrying into the seconds
CarryFrac(dt, secs, frac) ==
    IF frac < 0 THEN WrapDay(dt, secs - 1, frac + MillisPerSecond)
    ELSE IF frac >= MillisPerSecond THEN WrapDay(dt, secs + 1, frac - MillisPerSecond)
    ELSE WrapDay(dt, secs, frac)

\* NaiveTime::overflowing_add_signed with the days carried into the date:
\* a leap second that the sum leaves counts as the second before it when
\* time is added and as the second after it when time is taken away
AddParts(dt, secs_to_add, frac_to_add) ==
    IF dt.frac >= MillisPerSecond
    THEN IF \/ secs_to_add > 0
            \/ (frac_to_add > 0 /\ dt.frac >= 2 * MillisPerSecond - frac_to_add)
         THEN CarryFrac(dt, dt.secs + secs_to_add,
                        dt.frac - MillisPerSecond + frac_to_add)
         ELSE IF secs_to_add < 0
         THEN CarryFrac(dt, dt.secs + 1 + secs_to_add,
                        dt.frac - MillisPerSecond + frac_to_add)
         ELSE DateTime(dt.days, dt.secs, dt.frac + frac_to_add)
    ELSE CarryFrac(dt, dt.secs + secs_to_add, dt.frac + frac_to_add)

\* the days of the dates chrono holds, -262143-01-01 to +262142-12-31
DateRange == DaysFromCivil(MinYear, 1, 1)..DaysFromCivil(MaxYear, 12, 31)

\* DateTime::checked_add_signed: the sum, unless its date is none that
\* chrono holds
checked_add_signed(dt, duration) ==
    LET sum == AddParts(dt, TruncDiv(duration, MillisPerSecond),
                        TruncRem(duration, MillisPerSecond))
    IN  IF sum.days \in DateRange THEN Ok(sum) ELSE Err

\* DateTime + Duration (the message is written without its backquotes)
DateTime_add(dt, duration) ==
    expect(checked_add_signed(dt, duration), "DateTime + TimeDelta overflowed")

\* DateTime - Duration
DateTime_sub(dt, duration) ==
    expect(checked_add_signed(dt, 0 - duration), "DateTime - TimeDelta overflowed")

\* NaiveTime::signed_duration_since on the seconds of the day: a leap
\* second between the two times, held by the earlier, is counted
LeapAdjust(a, b) ==
    IF a.secs > b.secs /\ b.frac >= MillisPerSecond THEN 1
    ELSE IF a.secs < b.secs /\ a.frac >= MillisPerSecond THEN 0 - 1
    ELSE 0

\* DateTime - DateTime, a Duration (NaiveDateTime::signed_duration_since)
DateTime_since(a, b) ==
    (a.days - b.days) * MillisPerDay
    + (a.secs - b.secs + LeapAdjust(a, b)) * MillisPerSecond
    + (a.frac - b.frac)

\* the instant of the fields <<year, month, day, hour, minute, second,
\* millisecond>>, or Err when a field is out of range; second 60 is kept
\* as a leap second
DateTimeOf(t) ==
    IF \/ t[1] < MinYear \/ t[1] > MaxYear
       \/ t[2] \notin 1..12
       \/ t[3] \notin 1..DaysInMonth(t[1], t[2])
       \/ t[4] > 23 \/ t[5] > 59 \/ t[6] > 60
    THEN Err
    ELSE Ok(DateTime(DaysFromCivil(t[1], t[2], t[3]),
                     (t[4] * 60 + t[5]) * 60 + Min(t[6], 59),
                     IF t[6] = 60 THEN MillisPerSecond + t[7] ELSE t[7]))

\* the value of a Result r continued by F, or its error
AndThen(r, F(_)) == IF r.ok THEN F(r.v) ELSE r

\* Utc.datetime_from_str(value, "%F %T%.3f")
datetime_from_str(s) == AndThen(Scan(DateTimeFormat, s, <<>>), DateTimeOf)

(***************************************************************************)
(* Whole numbers of any size, for the arithmetic of floats and of i64: a   *)
(* sequence of limbs below Radix, the most significant first and not zero  *)
(* (no limb for the number zero).                                          *)
(***************************************************************************)
LimbBits == 15
Radix == 2^LimbBits

\* limbs without its leading zero limbs
Trim(limbs) ==
    IF \A k \in 1..Len(limbs) : limbs[k] = 0 THEN <<>>
    ELSE SubSeq(limbs, CHOOSE k \in 1..Len(limbs) :
                           limbs[k] # 0 /\ \A j \in 1..(k-1) : limbs[j] = 0,
                Len(limbs))

\* The loops below carry their state as one record, st.

RECURSIVE MulAdd(_, _)
\* the limbs st.rest times c, plus st.carry, before the limbs st.done: the
\* limbs from the least significant on, for c and the carry below Radix
MulAdd(st, c) ==
    IF st.rest = <<>> THEN st
    ELSE MulAdd([rest |-> SubSeq(st.rest, 1, Len(st.rest) - 1),
                 carry |-> (st.rest[Len(st.rest)] * c + st.carry) \div Radix,
                 done |-> <<(st.rest[Len(st.rest)] * c + st.carry) % Radix>> \o st.done],
                c)

\* the number limbs * c + carry
Product(limbs, c, carry) ==
    Trim(<<MulAdd([rest |-> limbs, carry |-> carry, done |-> <<>>], c).carry>>
             \o MulAdd([rest |-> limbs, carry |-> carry, done |-> <<>>], c).done)

RECURSIVE DivLoop(_, _)
\* the limbs st.q of a quotient by d, 0 < d <= Radix, continued by the
\* limbs st.rest, from the remainder st.r
DivLoop(st, d) ==
    IF st.rest = <<>> THEN st
    ELSE DivLoop([rest |-> Tail(st.rest),
                  r |-> (st.r * Radix + Head(st.rest)) % d,
                  q |-> Append(st.q, (st.r * Radix + Head(st.rest)) \div d)],
                 d)

\* limbs \div d and limbs % d: the limbs q of the quotient, of the same
\* length, and the remainder r
DivSmall(limbs, d) == DivLoop([rest |-> limbs, r |-> 0, q |-> <<>>], d)

\* the number limbs * 2^s
ShiftLeft(limbs, s) ==
    IF limbs = <<>> THEN <<>>
    ELSE Product(limbs, 2^(s % LimbBits), 0) \o [k \in 1..(s \div LimbBits) |-> 0]

\* the number limbs \div 2^s; sticky tells whether the division left a
\* remainder
ShiftRight(limbs, s) ==
    LET keep == Len(limbs) - s \div LimbBits
        r == DivSmall(SubSeq(limbs, 1, keep), 2^(s % LimbBits))
    IN  [q |-> Trim(r.q),
         sticky |-> r.r # 0 \/ \E j \in 1..Len(limbs) : j > keep /\ limbs[j] # 0]

\* the number of bits of the number limbs
BitLength(limbs) ==
    IF limbs = <<>> THEN 0
    ELSE (Len(limbs) - 1) * LimbBits
         + (CHOOSE b \in 1..LimbBits : 2^(b-1) <= Head(limbs) /\ Head(limbs) < 2^b)

\* the number of zero bits at the low end of the number limbs, not zero
TrailingZeros(limbs) ==
    LET last == CHOOSE k \in 1..Len(limbs) :
                    limbs[k] # 0 /\ \A j \in (k+1)..Len(limbs) : limbs[j] = 0
    IN  (Len(limbs) - last) * LimbBits
        + (CHOOSE b \in 0..(LimbBits - 1) :
               limbs[last] % 2^b = 0 /\ limbs[last] % 2^(b+1) # 0)

IsOdd(limbs) == limbs # <<>> /\ limbs[Len(limbs)] % 2 = 1

\* the number limbs \div 2^s (s > 0), and a little more when sticky, rounded
\* to the nearest whole number, a tie to the even one
RoundShift(limbs, s, sticky) ==
    LET g == ShiftRight(limbs, s - 1)
        kept == ShiftRight(g.q, 1).q
    IN  IF IsOdd(g.q) /\ (sticky \/ g.sticky \/ IsOdd(kept))
        THEN Product(kept, 1, 1)
        ELSE kept

RECURSIVE TimesPow(_, _, _)
\* the number limbs * c^n
TimesPow(limbs, c, n) ==
    IF n = 0 \/ limbs = <<>> THEN limbs ELSE TimesPow(Product(limbs, c, 0), c, n - 1)

RECURSIVE TimesPow5(_, _)
\* the number limbs * 5^n, six factors at a time
TimesPow5(limbs, n) ==
    IF limbs = <<>> THEN limbs
    ELSE IF n >= 6 THEN TimesPow5(Product(limbs, 5^6, 0), n - 6)
    ELSE TimesPow(limbs, 5, n)

\* st.q \div d, the division having left a remainder when sticky
DivStep(st, d) ==
    LET r == DivSmall(st.q, d)
    IN  [q |-> Trim(r.q), sticky |-> st.sticky \/ r.r # 0]

RECURSIVE DivPow5(_, _)
\* the number st.q \div 5^n, six factors at a time; sticky tells whether a
\* division left a remainder
DivPow5(st, n) ==
    IF n = 0 \/ st.q = <<>> THEN st
    ELSE IF n >= 6 THEN DivPow5(DivStep(st, 5^6), n - 6)
    ELSE DivPow5(DivStep(st, 5), n - 1)

RECURSIVE LimbsOfNat(_)
\* the limbs of a natural number n
LimbsOfNat(n) == IF n = 0 THEN <<>> ELSE Append(LimbsOfNat(n \div Radix), n % Radix)

RECURSIVE DigitsLoop(_)
\* the number st.n continued by the digits st.ds, four digits at a time
DigitsLoop(st) ==
    IF st.ds = <<>> THEN st
    ELSE DigitsLoop([ds |-> SubSeq(st.ds, Min(4, Len(st.ds)) + 1, Len(st.ds)),
                     n |-> Product(st.n, Pow10(Min(4, Len(st.ds))),
                                   DigitsValue(SubSeq(st.ds, 1, Min(4, Len(st.ds)))))])

\* the number of the numeral ds
LimbsOfDigits(ds) == DigitsLoop([ds |-> ds, n |-> <<>>]).n

RECURSIVE NatOfLimbs(_)
\* the whole number of limbs
NatOfLimbs(limbs) ==
    IF limbs = <<>> THEN 0
    ELSE NatOfLimbs(SubSeq(limbs, 1, Len(limbs) - 1)) * Radix + limbs[Len(limbs)]

RECURSIVE NatText(_)
\* the decimal numeral of a natural number
NatText(n) ==
    IF n < 10 THEN <<Digits[n + 1]>>
    ELSE NatText(n \div 10) \o <<Digits[(n % 10) + 1]>>

\* s padded on the left with zeros to the width w
ZeroPad(s, w) == IF Len(s) >= w THEN s ELSE [k \in 1..(w - Len(s)) |-> "0"] \o s

RECURSIVE TextLoop(_)
\* the digits of the number st.n, four at a time, before the digits st.text
TextLoop(st) ==
    IF st.n = <<>> THEN st
    ELSE TextLoop([n |-> Trim(DivSmall(st.n, Pow10(4)).q),
                   text |-> ZeroPad(NatText(DivSmall(st.n, Pow10(4)).r), 4) \o st.text])

\* the decimal numeral of the number limbs
DecimalText(limbs) ==
    IF limbs = <<>> THEN <<"0">>
    ELSE StripZeros(TextLoop([n |-> limbs, text |-> <<>>]).text)

(***************************************************************************)
(* i64.  An i64 is held as its sign and the limbs of its magnitude, so     *)
(* that every value of the type is at hand; zero has no sign.              *)
(***************************************************************************)
Int64(neg, m) == [neg |-> neg /\ m # <<>>, m |-> m]

\* the bits of the magnitude of every i64 but i64::MIN
I64Bits == 63

\* the magnitude of the largest i64
I64Max == LimbsOfDigits(<<"9","2","2","3","3","7","2","0","3","6","8","5","4","7","7","5","8","0","7">>)

\* i64::MIN, whose magnitude is 2^I64Bits
IsI64Min(x) == x.neg /\ BitLength(x.m) = I64Bits + 1 /\ TrailingZeros(x.m) = I64Bits

\* an i64 as an integer
IntOf(x) == IF x.neg THEN 0 - NatOfLimbs(x.m) ELSE NatOfLimbs(x.m)

\* value.parse::<i64>(): an optional sign, then one or more decimal digits,
\* nothing else; PosOverflow or NegOverflow when the number is beyond
\* i64::MAX or i64::MIN
parse_i64(s) ==
    IF s = <<>> THEN Err
    ELSE LET body == IF s[1] \in {"+", "-"} THEN Tail(s) ELSE s
             x == Int64(s[1] = "-", LimbsOfDigits(StripZeros(body)))
         IN  IF body = <<>> \/ ~AllDigits(body) THEN Err
             ELSE IF BitLength(x.m) > I64Bits /\ ~IsI64Min(x) THEN Err
             ELSE Ok(x)

(***************************************************************************)
(* f64 and f32.  A float is held exactly: its sign and, when finite, an    *)
(* odd whole number m with the power of two e that multiplies it (m and e  *)
(* zero for the value zero).                                               *)
(***************************************************************************)
\* the bits of the significand, the powers of two of the lowest bit of the
\* smallest and of the highest bit of the largest finite value, and the
\* powers of ten below which a number rounds to zero and from which on it
\* is beyond the largest finite value
F64 == [p |-> 53, emin |-> 0 - 1074, emax |-> 1023, dmin |-> 0 - 324, dmax |-> 309]
F32 == [p |-> 24, emin |-> 0 - 149, emax |-> 127, dmin |-> 0 - 46, dmax |-> 39]

Float(kind, neg, m, e) == [kind |-> kind, neg |-> neg, m |-> m, e |-> e]
Zero(neg) == Float("finite", neg, <<>>, 0)
Infinity(neg) == Float("inf", neg, <<>>, 0)
NaN(neg) == Float("nan", neg, <<>>, 0)

\* the float of the value m * 2^e
Finite(neg, m, e) ==
    IF m = <<>> THEN Zero(neg)
    ELSE Float("finite", neg, ShiftRight(m, TrailingZeros(m)).q, e + TrailingZeros(m))

\* the float of the rounded significand m, infinite beyond the largest
\* finite value
Bounded(neg, m, e, fmt) ==
    IF BitLength(m) + e - 1 > fmt.emax THEN Infinity(neg) ELSE Finite(neg, m, e)

\* m * 2^e, and a little more when sticky, rounded to a float that keeps
\* the first k bits of m: to the nearest, a tie to the even one
RoundAt(neg, m, e, sticky, fmt, k) ==
    IF k < 0 THEN Zero(neg)
    ELSE IF k = BitLength(m) THEN Bounded(neg, m, e, fmt)
    ELSE Bounded(neg, RoundShift(m, BitLength(m) - k, sticky), e + BitLength(m) - k, fmt)

\* the float of format fmt nearest to m * 2^e: the bits kept are those of
\* the significand, fewer for a subnormal value
Round(neg, m, e, sticky, fmt) ==
    RoundAt(neg, m, e, sticky, fmt,
            Min(Min(fmt.p, BitLength(m)), e + BitLength(m) - fmt.emin))

\* the float nearest to n * 10^x for a whole number n: n * 5^x * 2^x, the
\* division by a power of five carried far enough for the bits kept and
\* one more
FloatOfDecimal(neg, n, x, fmt) ==
    IF x >= 0 THEN Round(neg, TimesPow5(n, x), x, FALSE, fmt)
    ELSE LET s == IF fmt.p + 2 - 3 * x > BitLength(n)
                  THEN fmt.p + 2 - 3 * x - BitLength(n) ELSE 0
             d == DivPow5([q |-> ShiftLeft(n, s), sticky |-> FALSE], 0 - x)
         IN  Round(neg, d.q, x - s, d.sticky, fmt)

\* the float nearest to the numeral ds (not starting with 0) * 10^x, a
\* number from 10^(Len(ds)+x-1) to 10^(Len(ds)+x)
FloatOfDigits(neg, ds, x, fmt) ==
    IF ds = <<>> THEN Zero(neg)
    ELSE IF Len(ds) + x > fmt.dmax THEN Infinity(neg)
    ELSE IF Len(ds) + x < fmt.dmin THEN Zero(neg)
    ELSE FloatOfDecimal(neg, LimbsOfDigits(ds), x, fmt)

\* the float of a whole number n
FloatOfInt(n, fmt) ==
    Round(n < 0, LimbsOfNat(IF n < 0 THEN 0 - n ELSE n), 0, FALSE, fmt)

\* ASCII letters in upper case (the comparison of inf and nan ignores the
\* case of ASCII letters only)
AsciiUpper(s) ==
    [k \in 1..Len(s) |->
        IF \E j \in 1..Len(LowerCase) : LowerCase[j] = s[k]
        THEN UpperCase[IndexOf(s[k], LowerCase)] ELSE s[k]]

\* the exponent after e or E: an optional sign and one or more digits (an
\* exponent of ten digits or more is beyond every float either way)
Exponent(s) ==
    IF s = <<>> THEN Err
    ELSE LET body == IF s[1] \in {"+", "-"} THEN Tail(s) ELSE s
             mag == IF Len(StripZeros(body)) > 9 THEN Pow10(9)
                    ELSE DigitsValue(StripZeros(body))
         IN  IF body = <<>> \/ ~AllDigits(body) THEN Err
             ELSE Ok(IF s[1] = "-" THEN 0 - mag ELSE mag)

\* digits, optionally a point and digits, with at least one digit in all,
\* times ten to the exponent exp
Mantissa(neg, mant, exp, fmt) ==
    LET p == FirstSep(mant, ".")
        ip == SubSeq(mant, 1, p - 1)
        fp == SubSeq(mant, p + 1, Len(mant))
        ds == StripZeros(ip \o fp)
    IN  IF ~AllDigits(ip) \/ ~AllDigits(fp) \/ (ip = <<>> /\ fp = <<>>) THEN Err
        ELSE Ok(FloatOfDigits(neg, ds, exp - Len(fp), fmt))

\* the number with its exponent, if it has one, at position x of body
Scientific(neg, body, x, fmt) ==
    IF x > Len(body) THEN Mantissa(neg, body, 0, fmt)
    ELSE LET exp == Exponent(SubSeq(body, x + 1, Len(body)))
         IN  IF exp.ok THEN Mantissa(neg, SubSeq(body, 1, x - 1), exp.v, fmt) ELSE Err

\* value.parse::<f64>() and value.parse::<f32>(): an optional sign, then
\* inf, infinity or nan in any case, or a decimal number with an optional
\* exponent, which begins at the first e or E; the value is the float
\* nearest to the number written
parse_float(s, fmt) ==
    IF s = <<>> THEN Err
    ELSE LET body == IF s[1] \in {"+", "-"} THEN Tail(s) ELSE s
         IN  IF AsciiUpper(body) \in {<<"I","N","F">>, <<"I","N","F","I","N","I","T","Y">>} THEN Ok(Infinity(s[1] = "-"))
             ELSE IF AsciiUpper(body) = <<"N","A","N">> THEN Ok(NaN(s[1] = "-"))
             ELSE Scientific(s[1] = "-", body,
                             Min(FirstSep(body, "e"), FirstSep(body, "E")), fmt)

\* x * 1000.0 in f64
times_1000(x) ==
    IF x.kind # "finite" THEN x
    ELSE Round(x.neg, Product(x.m, MillisPerSecond, 0), x.e, FALSE, F64)

\* the whole part of the magnitude of the finite x
WholePart(x) == IF x.e >= 0 THEN ShiftLeft(x.m, x.e) ELSE ShiftRight(x.m, 0 - x.e).q

\* x.floor() as i64: the cast saturates at i64::MIN and i64::MAX, and
\* takes NaN to 0
floor_as_i64(x) ==
    IF x.kind = "nan" THEN Int64(FALSE, <<>>)
    ELSE IF x.kind = "inf" \/ BitLength(x.m) + x.e > I64Bits
    THEN Int64(x.neg, Product(I64Max, 1, IF x.neg THEN 1 ELSE 0))
    ELSE Int64(x.neg, Product(WholePart(x), 1, IF x.neg /\ x.e < 0 THEN 1 ELSE 0))

\* the numeral of a whole number of digits ds with a point before its last
\* prec digits
PointText(ds, prec) ==
    IF prec = 0 THEN ds
    ELSE SubSeq(ds, 1, Len(ds) - prec) \o <<".">> \o SubSeq(ds, Len(ds) - prec + 1, Len(ds))

\* the magnitude of the finite x times 10^prec, rounded to a whole number
Scaled(x, prec) ==
    IF x.e >= 0 THEN ShiftLeft(TimesPow(x.m, 10, prec), x.e)
    ELSE RoundShift(TimesPow(x.m, 10, prec), 0 - x.e, FALSE)

\* format!("{:.prec$}", x) for a float x: the exact value of x rounded to
\* prec decimals, a tie to the even one; the sign of a negative zero is
\* written
format_fixed(x, prec) ==
    IF x.kind = "nan" THEN <<"N","a","N">>
    ELSE (IF x.neg THEN <<"-">> ELSE <<>>) \o
         (IF x.kind = "inf" THEN <<"i","n","f">>
          ELSE PointText(ZeroPad(DecimalText(Scaled(x, prec)), prec + 1), prec))

(***************************************************************************)
(* viewingperiod.rs                                                        *)
(***************************************************************************)
\* a Status is one of "Match", "NoMatch", "NoData", "NoSound"

\* Status::from_str, were it to compare without upper-casing
Status_from_str_exact(s) ==
    CASE s \in {<<"0">>, <<"M","A","T","C","H">>} -> Ok("Match")
      [] s \in {<<"1">>, <<"N","O","_","M","A","T","C","H">>, <<"N","O","M","A","T","C","H">>} -> Ok("NoMatch")
      [] s \in {<<"2">>, <<"N","O","_","D","A","T","A">>, <<"N","O","D","A","T","A">>} -> Ok("NoData")
      [] s \in {<<"3">>, <<"N","O","_","S","O","U","N","D">>, <<"N","O","S","O","U","N","D">>} -> Ok("NoSound")
      [] OTHER -> Err

\* impl FromStr for Status
Status_from_str(s) ==
    LET u == to_uppercase(s)
    IN  CASE u \in {<<"0">>, <<"M","A","T","C","H">>} -> Ok("Match")
          [] u \in {<<"1">>, <<"N","O","_","M","A","T","C","H">>, <<"N","O","M","A","T","C","H">>} -> Ok("NoMatch")
          [] u \in {<<"2">>, <<"N","O","_","D","A","T","A">>, <<"N","O","D","A","T","A">>} -> Ok("NoData")
          [] u \in {<<"3">>, <<"N","O","_","S","O","U","N","D">>, <<"N","O","S","O","U","N","D">>} -> Ok("NoSound")
          [] OTHER -> Err

\* impl Default for ViewingPeriod
ViewingPeriod_default ==
    [provider |-> None,
     status |-> "NoMatch",
     user_id |-> <<"N","O","_","U","S","E","R">>,
     query_time |-> Instant(0),
     time_in_file |-> Instant(0),
     duration |-> 0,
     stream_id |-> Some(<<>>),
     entry_id |-> Some(<<>>),
     ber |-> Zero(FALSE),
     valid |-> FALSE]

\* end_time, were it to leave the duration out
ViewingPeriod_end_time_start(self) == Value(self.query_time)

\* ViewingPeriod::end_time: the instant, or the panic of the sum
ViewingPeriod_end_time(self) == DateTime_add(self.query_time, self.duration)

\* ViewingPeriod::offset
ViewingPeriod_offset(self) == DateTime_since(self.query_time, self.time_in_file)

(***************************************************************************)
(* tsv_reader.rs: separator                                                *)
(***************************************************************************)
\* Path::file_name: the last component of the path, unless it is ".."
\* (empty components and "." components do not count)
Path_file_name(path) ==
    LET parts == SelectSeq(split(path, "/"), LAMBDA c : c # <<>> /\ c # <<".">>)
    IN  IF parts = <<>> THEN None
        ELSE IF parts[Len(parts)] = <<".",".">> THEN None
        ELSE Some(parts[Len(parts)])

\* Path::extension: the text after the last point of the file name, when
\* the file name has a point that is not its first character
Path_extension(path) ==
    LET f == Path_file_name(path)
    IN  IF ~f.some THEN None
        ELSE LET name == f.v
                 dots == {k \in 1..Len(name) : name[k] = "."}
             IN  IF dots = {} THEN None
                 ELSE LET last == CHOOSE k \in dots : \A j \in dots : j <= k
                      IN  IF last = 1 THEN None
                          ELSE Some(SubSeq(name, last + 1, Len(name)))

\* separator, were it to compare the extension without regard to case
separator_any_case(path) ==
    LET ext == Path_extension(path)
    IN  IF ~ext.some THEN None
        ELSE CASE to_uppercase(ext.v) = <<"C","S","V">> -> Some(",")
               [] to_uppercase(ext.v) = <<"T","S","V">> -> Some("\t")
               [] OTHER -> None

separator(path) ==
    LET ext == Path_extension(path)
    IN  IF ~ext.some THEN None
        ELSE CASE ext.v = <<"c","s","v">> -> Some(",")
               [] ext.v = <<"t","s","v">> -> Some("\t")
               [] OTHER -> None

(***************************************************************************)
(* tsv_reader.rs: the cell parsers.  A parser either yields a value or     *)
(* panics, with the message of its expect or with that of chrono.          *)
(***************************************************************************)
\* the value of an outcome r mapped by F, or its panic
Bind(r, F(_)) == IF r.panic THEN r ELSE Value(F(r.v))

\* the value of an outcome r continued by F, or its panic
AndThenValue(r, F(_)) == IF r.panic THEN r ELSE F(r.v)

\* NaiveDateTime::from_timestamp_millis: the day before or after
\* 1970-01-01 and the time of that day, of an i64 of milliseconds; None
\* when the day is beyond an i32 or is no date that chrono holds
from_timestamp_millis(millis) ==
    LET ms == DivSmall(millis.m, MillisPerSecond)
        s == DivSmall(ms.q, 60)
        mi == DivSmall(s.q, 60)
        h == DivSmall(mi.q, 24)
        part == ((h.r * 60 + mi.r) * 60 + s.r) * MillisPerSecond + ms.r
        time == IF millis.neg /\ part > 0 THEN MillisPerDay - part ELSE part
    IN  IF BitLength(Trim(h.q)) > 31 THEN Err
        ELSE LET whole == NatOfLimbs(Trim(h.q))
                 days == IF ~millis.neg THEN whole
                         ELSE IF part > 0 THEN 0 - whole - 1 ELSE 0 - whole
             IN  IF days \notin DateRange THEN Err
                 ELSE Ok(DateTime(days, time \div MillisPerSecond, time % MillisPerSecond))

parse_datetime_str(value) ==
    expect(datetime_from_str(value), "failed to parse datetime")

\* parse_timestamp, were it to take the epoch for a cell that is no integer
parse_timestamp_or_epoch(value) ==
    IF parse_i64(value).ok
    THEN expect(from_timestamp_millis(parse_i64(value).v),
                "could not convert timestamp to datetime")
    ELSE Value(Instant(0))

parse_timestamp(value) ==
    AndThenValue(expect(parse_i64(value), "could not parse timestamp as integer"),
                 LAMBDA millis : expect(from_timestamp_millis(millis),
                                        "could not convert timestamp to datetime"))

\* Duration::milliseconds: the duration of so many milliseconds; i64::MIN
\* is out of its bounds.  (This is chrono 0.4.44; the manifest pins no
\* release, and releases before 0.4.34 held i64::MIN milliseconds too.)
Duration_milliseconds(milliseconds) ==
    IF IsI64Min(milliseconds) THEN Panic("TimeDelta::milliseconds out of bounds")
    ELSE Value(IntOf(milliseconds))

duration_from_millis(value) ==
    AndThenValue(expect(parse_i64(value), "failed to parse millis from duration"),
                 Duration_milliseconds)

\* (float_value * 1000.0).floor() as i64: the floor of the f64 product
floor_millis(float_value) == floor_as_i64(times_1000(float_value))

duration_from_seconds(value) ==
    AndThenValue(expect(parse_float(value, F64), "failed to parse seconds from duration"),
                 LAMBDA float_value : Duration_milliseconds(floor_millis(float_value)))

parse_ber(value) == expect(parse_float(value, F32), "failed to parse ber")

parse_valid(value) == value \in {<<"V","A","L","I","D">>, <<"t","r","u","e">>, <<"1">>}

(***************************************************************************)
(* tsv_reader.rs: line_to_period.  The state of the loop is the record vp  *)
(* and the two pending values offset and end_time.                         *)
(***************************************************************************)
\* set_status, were it to fall back to the default status on a parse error
set_status_or_default(period, value) ==
    LET r == Status_from_str(value)
    IN  [period EXCEPT !.status = IF r.ok THEN r.v ELSE "NoMatch"]

set_status(period, value) ==
    LET r == Status_from_str(value)
    IN  IF r.ok THEN [period EXCEPT !.status = r.v] ELSE period

\* the arm of an unknown column name, were it to be fatal
unrecognised_key_fatal(st, key) == Panic("unrecognised field key")

\* the arm of a column name the match does not know: a message is printed
unrecognised_key(st, key) == Value(st)

\* the match on the column name
match_key(st, key, value) ==
    CASE key \in {<<"s","t","a","t","u","s">>, <<"S","t","a","t","u","s">>} ->
           Value([st EXCEPT !.vp = set_status(st.vp, value)])
      [] key \in {<<"u","s","e","r","I","D">>, <<"r","s","s","_","i","d">>, <<"D","E","V","I","C","E","_","I","D">>} ->
           Value([st EXCEPT !.vp.user_id = value])
      [] key = <<"t","i","m","e","I","n","F","i","l","e">> ->
           Bind(parse_timestamp(value), LAMBDA t : [st EXCEPT !.vp.time_in_file = t])
      [] key \in {<<"t","S","t","a","r","t","M","s","e","c">>, <<"t","S","t","a","r","t">>} ->
           Bind(parse_timestamp(value), LAMBDA t : [st EXCEPT !.vp.query_time = t])
      [] key \in {<<"s","t","a","r","t","T","i","m","e">>, <<"s","t","a","r","t","_","t","s">>, <<"S","T","A","R","T">>} ->
           Bind(parse_datetime_str(value), LAMBDA t : [st EXCEPT !.vp.query_time = t])
      [] key = <<"d","u","r","a","t","i","o","n","M","s","e","c">> ->
           Bind(duration_from_millis(value), LAMBDA t : [st EXCEPT !.vp.duration = t])
      [] key = <<"d","u","r","a","t","i","o","n">> ->
           Bind(duration_from_seconds(value), LAMBDA t : [st EXCEPT !.vp.duration = t])
      [] key \in {<<"s","t","r","e","a","m","_","i","d">>, <<"S","t","r","e","a","m","_","i","d">>, <<"s","t","r","e","a","m","_","n","a","m","e">>, <<"n","a","m","e">>, <<"S","T","R","E","A","M","_","L","A","B","E","L">>} ->
           Value([st EXCEPT !.vp.stream_id = Some(value)])
      [] key = <<"m","o","d","u","l","e","_","r","e","f">> ->
           Value([st EXCEPT !.vp.provider = Some(value)])
      [] key \in {<<"p","e","r","i","o","d","_","i","d">>, <<"i","d">>} ->
           Value([st EXCEPT !.vp.entry_id = Some(value)])
      [] key \in {<<"b","i","t","E","r","r","o","r","R","a","t","e">>, <<"b","e","r">>} ->
           Bind(parse_ber(value), LAMBDA t : [st EXCEPT !.vp.ber = t])
      [] key = <<"v","a","l","i","d">> ->
           Value([st EXCEPT !.vp.valid = parse_valid(value)])
      [] key = <<"o","f","f","s","e","t">> ->
           Bind(duration_from_millis(value), LAMBDA t : [st EXCEPT !.offset = Some(t)])
      [] key \in {<<"o","f","f","s","e","t","_","s">>, <<"O","F","F","S","E","T">>} ->
           Bind(duration_from_seconds(value), LAMBDA t : [st EXCEPT !.offset = Some(t)])
      [] key \in {<<"e","n","d","T","i","m","e">>, <<"s","t","o","p","_","t","s">>, <<"E","N","D">>} ->
           Bind(parse_datetime_str(value), LAMBDA t : [st EXCEPT !.end_time = Some(t)])
      [] OTHER -> unrecognised_key(st, key)

\* derive_time_in_file, were it to wait for a query_time other than the
\* default
derive_time_in_file_if_started(st) ==
    IF st.offset.some /\ st.vp.query_time # ViewingPeriod_default.query_time
    THEN Bind(DateTime_sub(st.vp.query_time, st.offset.v),
              LAMBDA t : [st EXCEPT !.vp.time_in_file = t])
    ELSE Value(st)

\* vp.time_in_file = vp.query_time - offset_val, when an offset is pending:
\* the state, or the panic of the difference
derive_time_in_file(st) ==
    IF st.offset.some
    THEN Bind(DateTime_sub(st.vp.query_time, st.offset.v),
              LAMBDA t : [st EXCEPT !.vp.time_in_file = t])
    ELSE Value(st)

\* derive_duration, were it to wait for a query_time other than the default
derive_duration_if_started(st) ==
    IF st.end_time.some /\ st.vp.query_time # ViewingPeriod_default.query_time
    THEN [st EXCEPT !.vp.duration = DateTime_since(st.end_time.v, st.vp.query_time)]
    ELSE st

derive_duration(st) ==
    IF st.end_time.some
    THEN [st EXCEPT !.vp.duration = DateTime_since(st.end_time.v, st.vp.query_time)]
    ELSE st

is_matched_stream(stream) ==
    /\ stream # <<>>
    /\ stream # <<"0">>
    /\ stream # <<"N","O","_","D","A","T","A">>
    /\ stream # <<"N","O","_","M","A","T","C","H">>
    /\ stream # <<"N","O","_","S","O","U","N","D">>

\* infer_status, were it to leave alone a status that is not the default
infer_status_unless_explicit(st) ==
    IF /\ st.vp.stream_id.some
       /\ is_matched_stream(st.vp.stream_id.v)
       /\ st.vp.status = "NoMatch"
    THEN [st EXCEPT !.vp.status = "Match"]
    ELSE st

infer_status(st) ==
    IF st.vp.stream_id.some /\ is_matched_stream(st.vp.stream_id.v)
    THEN [st EXCEPT !.vp.status = "Match"]
    ELSE st

\* the three derivations that follow the match, in the order of the code
derive(st) ==
    Bind(derive_time_in_file(st), LAMBDA next : infer_status(derive_duration(next)))

\* loop_body, were the status to be inferred only in the pass of a stream
\* column
loop_body_infer_at_stream(st, key, raw_value) ==
    AndThenValue(match_key(st, key, clean_value(raw_value)),
                 LAMBDA next :
                     IF key \in {<<"s","t","r","e","a","m","_","i","d">>, <<"S","t","r","e","a","m","_","i","d">>, <<"s","t","r","e","a","m","_","n","a","m","e">>, <<"n","a","m","e">>,
                                 <<"S","T","R","E","A","M","_","L","A","B","E","L">>}
                     THEN derive(next)
                     ELSE Bind(derive_time_in_file(next), derive_duration))

\* loop_body, were time_in_file to be derived only in the pass of a column
\* that sets the pending offset or the query_time
loop_body_derive_on_touch(st, key, raw_value) ==
    AndThenValue(match_key(st, key, clean_value(raw_value)),
                 LAMBDA next :
                     IF key \in {<<"o","f","f","s","e","t">>, <<"o","f","f","s","e","t","_","s">>, <<"O","F","F","S","E","T">>, <<"t","S","t","a","r","t","M","s","e","c">>, <<"t","S","t","a","r","t">>,
                                 <<"s","t","a","r","t","T","i","m","e">>, <<"s","t","a","r","t","_","t","s">>, <<"S","T","A","R","T">>}
                     THEN derive(next)
                     ELSE Value(infer_status(derive_duration(next))))

\* loop_body, were an entry_id, once set by a column, to be kept
loop_body_keep_entry_id(st, key, raw_value) ==
    AndThenValue(match_key(st, key, clean_value(raw_value)),
                 LAMBDA next :
                     derive(IF st.vp.entry_id # ViewingPeriod_default.entry_id
                            THEN [next EXCEPT !.vp.entry_id = st.vp.entry_id]
                            ELSE next))

\* one pass of the loop body on the pair (key, raw_value)
loop_body(st, key, raw_value) ==
    AndThenValue(match_key(st, key, clean_value(raw_value)), derive)

\* zip, were it to run to the end of the longer side, the shorter side
\* continued with empty text
zip_longest(hdr, cells) ==
    [k \in 1..(IF Len(hdr) >= Len(cells) THEN Len(hdr) ELSE Len(cells)) |->
        [key |-> IF k <= Len(hdr) THEN hdr[k] ELSE <<>>,
         raw_value |-> IF k <= Len(cells) THEN cells[k] ELSE <<>>]]

\* header.iter().zip(line.split(separator))
zip(hdr, cells) ==
    [k \in 1..Min(Len(hdr), Len(cells)) |-> [key |-> hdr[k], raw_value |-> cells[k]]]

RECURSIVE fold_pairs(_, _)
\* the loop over the pairs, from the state st: the final state, or the panic
fold_pairs(st, pairs) ==
    IF pairs = <<>> THEN Value(st)
    ELSE AndThenValue(loop_body(st, pairs[1].key, pairs[1].raw_value),
                      LAMBDA next : fold_pairs(next, Tail(pairs)))

line_to_period_init == [vp |-> ViewingPeriod_default, offset |-> None, end_time |-> None]

\* line_to_period as a function: the record returned, or the panic
line_to_period(ln, hdr, sp) ==
    Bind(fold_pairs(line_to_period_init, zip(hdr, split(ln, sp))), LAMBDA st : st.vp)

(***************************************************************************)
(* viewingperiod.rs: the textual form of a record                          *)
(***************************************************************************)
\* impl Display for Status
Status_fmt(self) ==
    CASE self = "Match" -> <<"M","A","T","C","H">>
      [] self = "NoMatch" -> <<"N","O","_","M","A","T","C","H">>
      [] self = "NoSound" -> <<"N","O","_","S","O","U","N","D">>
      [] self = "NoData" -> <<"N","O","_","D","A","T","A">>

\* millisec_to_sec: (ms / 1000) as f64 is the quotient rounded to an f64,
\* (ms % 1000) as f64 is the remainder itself, and the f64 sum of the two,
\* which have the sign of ms, is their sum rounded again
millisec_to_sec(ms) ==
    Round(ms < 0,
          Product(WholePart(FloatOfInt(TruncDiv(ms, 1000), F64)), 1,
                  IF ms < 0 THEN 0 - TruncRem(ms, 1000) ELSE TruncRem(ms, 1000)),
          0, FALSE, F64)

\* print_duration, for a duration of so many milliseconds
print_duration(duration) == format_fixed(millisec_to_sec(duration), 3)

\* the civil date of a day of a 400-year era, by its month counted from March
CivilFromMp(y, doy, mp) ==
    [year |-> IF mp < 10 THEN y ELSE y + 1,
     month |-> IF mp < 10 THEN mp + 3 ELSE mp - 9,
     day |-> doy - (153 * mp + 2) \div 5 + 1]

\* the civil date of a day of an era, by its year of the era: the day of
\* the year and the month that holds it
CivilFromYoe(era, doe, yoe) ==
    CivilFromMp(yoe + era * 400, doe - (365 * yoe + yoe \div 4 - yoe \div 100),
                (5 * (doe - (365 * yoe + yoe \div 4 - yoe \div 100)) + 2) \div 153)

CivilFromDoe(era, doe) ==
    CivilFromYoe(era, doe,
                 (doe - doe \div 1460 + doe \div 36524 - doe \div 146096) \div 365)

\* the date that is z days after 1970-01-01 (the inverse of DaysFromCivil)
CivilFromDays(z) == CivilFromDoe((z + 719468) \div 146097, (z + 719468) % 146097)

\* a year outside 0..9999 is written with its sign
YearText(year) ==
    IF year < 0 THEN <<"-">> \o ZeroPad(NatText(0 - year), 4)
    ELSE IF year > 9999 THEN <<"+">> \o ZeroPad(NatText(year), 4)
    ELSE ZeroPad(NatText(year), 4)

\* t.to_rfc3339_opts(SecondsFormat::Millis, true): the date, and the time
\* of day with a leap second written as second 60
to_rfc3339_millis(t) ==
    YearText(CivilFromDays(t.days).year) \o <<"-">>
        \o ZeroPad(NatText(CivilFromDays(t.days).month), 2) \o <<"-">>
        \o ZeroPad(NatText(CivilFromDays(t.days).day), 2) \o <<"T">>
        \o ZeroPad(NatText(t.secs \div (60 * 60)), 2) \o <<":">>
        \o ZeroPad(NatText((t.secs \div 60) % 60), 2) \o <<":">>
        \o ZeroPad(NatText((t.secs % 60) + (t.frac \div MillisPerSecond)), 2) \o <<".">>
        \o ZeroPad(NatText(t.frac % MillisPerSecond), 3) \o <<"Z">>

\* impl Display for ViewingPeriod: the pieces written to the formatter, one
\* for each write!; end_time() is called for the seventh, and when it
\* panics the six pieces before it have been written
ViewingPeriod_fmt(self) ==
    LET written ==
            << <<"u","s","e","r","_","i","d",":"," ">> \o self.user_id \o <<","," ">>,
               <<"s","t","a","t","u","s",":"," ">> \o Status_fmt(self.status) \o <<","," ">>,
               <<"s","t","r","e","a","m","_","i","d",":"," ">> \o (IF self.stream_id.some THEN self.stream_id.v ELSE <<>>),
               <<"e","n","t","r","y","_","i","d",":"," ">> \o (IF self.entry_id.some THEN self.entry_id.v ELSE <<>>),
               <<"o","f","f","s","e","t","_","s",":"," ">> \o print_duration(ViewingPeriod_offset(self)) \o <<","," ">>,
               <<"s","t","a","r","t","T","i","m","e",":"," ">> \o to_rfc3339_millis(self.query_time) \o <<","," ">> >>
        end == ViewingPeriod_end_time(self)
    IN  IF end.panic THEN [panic |-> TRUE, msg |-> end.msg, v |-> written]
        ELSE Value(written \o
                   << <<"e","n","d","T","i","m","e",":"," ">> \o to_rfc3339_millis(end.v) \o <<","," ">>,
                      <<"d","u","r","a","t","i","o","n",":"," ">> \o print_duration(self.duration) \o <<","," ">>,
                      <<"b","e","r",":"," ">> \o format_fixed(self.ber, 2) \o <<","," ">>,
                      <<"v","a","l","i","d",":"," ">> \o (IF self.valid THEN <<"t","r","u","e">> ELSE <<"f","a","l","s","e">>) >>)
(***************************************************************************)
(* The reader as a state machine                                           *)
(*                                                                         *)
(*   path, file    the argument of read and what the file system holds     *)
(*                 there: None (no such file) or the lines of the file, a  *)
(*                 line being readable ([ok |-> TRUE, text |-> ...]) or    *)
(*                 not ([ok |-> FALSE], an I/O or encoding failure)        *)
(*   pc            "read", "open", "read_periods", "lines", "map",         *)
(*                 "line_to_period", "done", "panicked"                    *)
(*   opened        File::open has been called                              *)
(*   sep           the separator, once separator(path) has yielded one     *)
(*   source        the lines the iterator has not yet yielded              *)
(*   header        the column names                                        *)
(*   consumed      the data lines the iterator has yielded so far          *)
(*   line, i       the line in line_to_period and the pair the loop is at  *)
(*   vp, offset, end_time    the locals of line_to_period                  *)
(*   periods       the records collected so far                            *)
(*   result        the value returned: None until read_periods returns     *)
(*   panic         the message of the panic, "" when there is none         *)
(*   shown         the pieces written by Display::fmt for the first        *)
(*                 record, None until it has been formatted                *)
(*   viewed        the value end_time() or offset() has returned for the   *)
(*                 first record, None until one has been called            *)
(***************************************************************************)
VARIABLES pc, path, file, opened, sep, source, header, consumed, line, i,
          vp, offset, end_time, periods, result, panic, shown, viewed

vars == <<pc, path, file, opened, sep, source, header, consumed, line, i,
          vp, offset, end_time, periods, result, panic, shown, viewed>>

OkLine(text) == [ok |-> TRUE, text |-> text]
BadLine == [ok |-> FALSE]

\* read: separator(&path).expect("unsupported file extension")
Read ==
    /\ pc = "read"
    /\ LET s == separator(path)
       IN  IF s.some
           THEN /\ sep' = s
                /\ pc' = "open"
                /\ panic' = panic
           ELSE /\ sep' = sep
                /\ pc' = "panicked"
                /\ panic' = "unsupported file extension"
    /\ UNCHANGED <<shown, viewed, path, file, opened, source, header, consumed, line, i,
                   vp, offset, end_time, periods, result>>

\* read: fs::File::open(&path).expect("failed to open file")
Open ==
    /\ pc = "open"
    /\ opened' = TRUE
    /\ IF file.some
       THEN /\ source' = file.v
            /\ pc' = "read_periods"
            /\ panic' = panic
       ELSE /\ source' = source
            /\ pc' = "panicked"
            /\ panic' = "failed to open file"
    /\ UNCHANGED <<shown, viewed, path, file, sep, header, consumed, line, i,
                   vp, offset, end_time, periods, result>>

\* read_periods: the first line is the header
ReadHeader ==
    /\ pc = "read_periods"
    /\ IF source = <<>>
       THEN /\ pc' = "panicked"
            /\ panic' = "expected table to have at least header"
            /\ UNCHANGED <<source, header>>
       ELSE IF ~Head(source).ok
       THEN /\ pc' = "panicked"
            /\ panic' = "failed to read header from file"
            /\ source' = Tail(source)
            /\ UNCHANGED header
       ELSE /\ header' = split(Head(source).text, sep.v)
            /\ source' = Tail(source)
            /\ pc' = "lines"
            /\ panic' = panic
    /\ UNCHANGED <<shown, viewed, path, file, opened, sep, consumed, line, i,
                   vp, offset, end_time, periods, result>>

\* NextLine, were the iteration to end at the first line that cannot be read
NextLineStop ==
    /\ pc = "lines"
    /\ source # <<>>
    /\ source' = IF Head(source).ok THEN Tail(source) ELSE <<>>
    /\ consumed' = Append(consumed, Head(source))
    /\ IF Head(source).ok
       THEN /\ line' = Head(source).text
            /\ pc' = "map"
       ELSE /\ line' = line
            /\ pc' = "lines"
    /\ UNCHANGED <<shown, viewed, path, file, opened, sep, header, i,
                   vp, offset, end_time, periods, result, panic>>

\* read_periods: the next line of the iterator; filter_map drops a line
\* that could not be read
NextLine ==
    /\ pc = "lines"
    /\ source # <<>>
    /\ source' = Tail(source)
    /\ consumed' = Append(consumed, Head(source))
    /\ IF Head(source).ok
       THEN /\ line' = Head(source).text
            /\ pc' = "map"
       ELSE /\ line' = line
            /\ pc' = "lines"
    /\ UNCHANGED <<shown, viewed, path, file, opened, sep, header, i,
                   vp, offset, end_time, periods, result, panic>>

\* BeginLine, were the two pending values to outlive the line
BeginLineKeepPending ==
    /\ pc = "map"
    /\ vp' = line_to_period_init.vp
    /\ i' = 1
    /\ pc' = "line_to_period"
    /\ UNCHANGED <<shown, viewed, path, file, opened, sep, source, header, consumed, line,
                   offset, end_time, periods, result, panic>>

\* line_to_period: the locals before the loop
BeginLine ==
    /\ pc = "map"
    /\ vp' = line_to_period_init.vp
    /\ offset' = line_to_period_init.offset
    /\ end_time' = line_to_period_init.end_time
    /\ i' = 1
    /\ pc' = "line_to_period"
    /\ UNCHANGED <<shown, viewed, path, file, opened, sep, source, header, consumed, line,
                   periods, result, panic>>

\* the pairs the loop of line_to_period runs over
Pairs == zip(header, split(line, sep.v))

\* the effect of one pass of the loop with outcome r
LoopOutcome(r) ==
    IF r.panic
    THEN /\ pc' = "panicked"
         /\ panic' = r.msg
         /\ UNCHANGED <<i, vp, offset, end_time>>
    ELSE /\ vp' = r.v.vp
         /\ offset' = r.v.offset
         /\ end_time' = r.v.end_time
         /\ i' = i + 1
         /\ UNCHANGED <<pc, panic>>

\* line_to_period: one pass of the loop
ColStep ==
    /\ pc = "line_to_period"
    /\ i <= Len(Pairs)
    /\ LoopOutcome(loop_body([vp |-> vp, offset |-> offset, end_time |-> end_time],
                             Pairs[i].key, Pairs[i].raw_value))
    /\ UNCHANGED <<shown, viewed, path, file, opened, sep, source, header, consumed, line,
                   periods, result>>

\* line_to_period returns vp, which collect appends to the vector
Return ==
    /\ pc = "line_to_period"
    /\ i > Len(Pairs)
    /\ periods' = Append(periods, vp)
    /\ pc' = "lines"
    /\ UNCHANGED <<shown, viewed, path, file, opened, sep, source, header, consumed, line, i,
                   vp, offset, end_time, result, panic>>

\* read_periods: the iterator is exhausted and the vector is returned
Collect ==
    /\ pc = "lines"
    /\ source = <<>>
    /\ result' = Some(periods)
    /\ pc' = "done"
    /\ UNCHANGED <<shown, viewed, path, file, opened, sep, source, header, consumed, line, i,
                   vp, offset, end_time, periods, panic>>

Next == Read \/ Open \/ ReadHeader \/ NextLine \/ BeginLine \/ ColStep \/ Return \/ Collect

\* line_to_period alone, called on one line
NextLineToPeriod == BeginLine \/ ColStep \/ Return

\* Display::fmt on the record line_to_period has returned: what it has
\* written to the formatter, all of it or the pieces before the panic
Display ==
    /\ pc = "lines"
    /\ periods # <<>>
    /\ shown' = Some(ViewingPeriod_fmt(periods[1]).v)
    /\ IF ViewingPeriod_fmt(periods[1]).panic
       THEN /\ pc' = "panicked"
            /\ panic' = ViewingPeriod_fmt(periods[1]).msg
       ELSE UNCHANGED <<pc, panic>>
    /\ UNCHANGED <<viewed, path, file, opened, sep, source, header, consumed, line, i,
                   vp, offset, end_time, periods, result>>

\* line_to_period on one line, and the record shown
NextShownLine == BeginLine \/ ColStep \/ Return \/ Display

\* ViewingPeriod::end_time called on a record
CallEndTime ==
    /\ pc = "lines"
    /\ periods # <<>>
    /\ IF ViewingPeriod_end_time(periods[1]).panic
       THEN /\ pc' = "panicked"
            /\ panic' = ViewingPeriod_end_time(periods[1]).msg
            /\ viewed' = viewed
       ELSE /\ viewed' = Some([of |-> "end_time",
                               value |-> ViewingPeriod_end_time(periods[1]).v])
            /\ UNCHANGED <<pc, panic>>
    /\ UNCHANGED <<shown, path, file, opened, sep, source, header, consumed, line, i,
                   vp, offset, end_time, periods, result>>

\* ViewingPeriod::offset called on a record
CallOffset ==
    /\ pc = "lines"
    /\ periods # <<>>
    /\ viewed' = Some([of |-> "offset", value |-> ViewingPeriod_offset(periods[1])])
    /\ UNCHANGED <<pc, panic, shown, path, file, opened, sep, source, header, consumed,
                   line, i, vp, offset, end_time, periods, result>>

\* line_to_period on one line, and the two methods called on the record
NextViews == BeginLine \/ ColStep \/ Return \/ CallEndTime \/ CallOffset

(***************************************************************************)
(* Inputs: the tables the reader is run on                                 *)
(***************************************************************************)
\* the longest header and the most data lines of a table given to read
MaxCols == 2
MaxRows == 3
\* the most data lines of a table that may hold a malformed cell
AbortRows == 3
\* the longest header line_to_period is called with, by kind of column
StatusCols == 2
TimeCols == 3

RECURSIVE Join(_, _)
\* the pieces with the separator d between them
Join(pieces, d) ==
    IF Len(pieces) = 1 THEN pieces[1]
    ELSE pieces[1] \o <<d>> \o Join(Tail(pieces), d)

RECURSIVE SeqsOfLen(_, _)
SeqsOfLen(S, n) ==
    IF n = 0 THEN {<<>>}
    ELSE {<<x>> \o r : x \in S, r \in SeqsOfLen(S, n - 1)}

SeqsUpTo(S, n) == UNION {SeqsOfLen(S, k) : k \in 0..n}

Headers(keys, n) == UNION {SeqsOfLen(keys, k) : k \in 1..n}

EpochKeys == {<<"t","i","m","e","I","n","F","i","l","e">>, <<"t","S","t","a","r","t","M","s","e","c">>, <<"t","S","t","a","r","t">>}
StartKeys == {<<"s","t","a","r","t","T","i","m","e">>, <<"s","t","a","r","t","_","t","s">>, <<"S","T","A","R","T">>}
EndKeys == {<<"e","n","d","T","i","m","e">>, <<"s","t","o","p","_","t","s">>, <<"E","N","D">>}
SecondsKeys == {<<"d","u","r","a","t","i","o","n">>, <<"o","f","f","s","e","t","_","s">>, <<"O","F","F","S","E","T">>}
MillisKeys == {<<"d","u","r","a","t","i","o","n","M","s","e","c">>, <<"o","f","f","s","e","t">>}
BerKeys == {<<"b","i","t","E","r","r","o","r","R","a","t","e">>, <<"b","e","r">>}
StatusKeys == {<<"s","t","a","t","u","s">>, <<"S","t","a","t","u","s">>}
StreamKeys == {<<"s","t","r","e","a","m","_","i","d">>, <<"S","t","r","e","a","m","_","i","d">>, <<"s","t","r","e","a","m","_","n","a","m","e">>, <<"n","a","m","e">>, <<"S","T","R","E","A","M","_","L","A","B","E","L">>}

\* cells that the parser of the column accepts
GoodCells(key) ==
    CASE key = <<"t","i","m","e","I","n","F","i","l","e">> -> {<<"7">>}
      [] key = <<"t","S","t","a","r","t">> -> {<<"5">>}
      [] key = <<"t","S","t","a","r","t","M","s","e","c">> ->
           {<<"5">>, <<"\f">> \o <<"5">>, <<"+","5">>, <<"U+3000">> \o <<"-","5">> \o <<"U+2028">>}
      [] key = <<"s","t","a","r","t","T","i","m","e">> -> {<<"1","9","7","0","-","0","1","-","0","1"," ","0","0",":","0","0",":","0","5",".","0","0","0">>, <<"1","9","6","9","-","1","2","-","3","1"," ","2","3",":","5","9",":","6","0",".","9","0","0">>}
      [] key \in {<<"s","t","a","r","t","_","t","s">>, <<"S","T","A","R","T">>} ->
           {<<"1","9","7","0","-","0","1","-","0","1"," ","0","0",":","0","0",":","0","5",".","0","0","0">>, <<"+","1","9","7","0","-"," ","0","1","-","0","1"," ","0","0",":"," ","0","0",":","0","5">>,
            <<"1","9","7","0","-","0","1","-","0","1">> \o <<"\f">> \o <<"0","0",":","0","0",":","0","5">>, <<"-","0","0","0","1","-","0","1","-","0","1"," ","0","0",":","0","0",":","0","0">>}
      [] key = <<"e","n","d","T","i","m","e">> -> {<<"1","9","7","0","-","0","1","-","0","1"," ","0","0",":","0","0",":","0","9",".","5","0","0">>, <<"1","9","7","0","-","0","1","-","0","1"," ","0","0",":","0","0",":","6","0">>}
      [] key \in {<<"s","t","o","p","_","t","s">>, <<"E","N","D">>} ->
           {<<"1","9","7","0","-","0","1","-","0","1"," ","0","0",":","0","0",":","0","9",".","5","0","0">>, <<"1","9","7","0","-","0","1","-","0","1"," ","2","3",":","5","9",":","6","0">>, <<"1","9","7","0","-","0","1","-","0","1"," ","0","0",":","0","0",":"," ","0","5">>}
      [] key = <<"d","u","r","a","t","i","o","n","M","s","e","c">> -> {<<"4">>}
      [] key = <<"d","u","r","a","t","i","o","n">> -> {<<"1",".","5">>, <<"1",".","0","0","1">>}
      [] key = <<"o","f","f","s","e","t">> -> {<<"3">>}
      [] key = <<"o","f","f","s","e","t","_","s">> -> {<<"-","0",".","2","5">>}
      [] key = <<"O","F","F","S","E","T">> -> {<<"-","0",".","2","5">>, <<"1","e","3">>, <<"1",".","e","2">>, <<"n","a","n">>}
      [] key = <<"b","i","t","E","r","r","o","r","R","a","t","e">> -> {<<"0",".","2","4","7","5","9","7">>}
      [] key = <<"b","e","r">> -> {<<"0",".","2","4","7","5","9","7">>, <<"1","e","-","2">>, <<"N","a","N">>, <<"-","0">>, <<"-","I","n","f","i","n","i","t","y">>}
      [] key \in StatusKeys ->
           {<<"M","A","T","C","H">>, <<"N","O","_","M","A","T","C","H">>, <<"N","O","_","D","A","T","A">>, <<"N","O","_","S","O","U","N","D">>,
            <<"\f", "'">> \o <<"N","O","_","S","O","U","N","D">> \o <<"'", "U+00A0">>}
      [] key \in StreamKeys -> {<<"3","2","9">>, <<>>, <<"0">>, <<"N","O","_","M","A","T","C","H">>, <<" ","'","a","b","c","'">>}
      [] OTHER -> {<<"x">>, <<"5">>}

\* cells that the parser of the column rejects, or that the specification
\* of the format does not list
BadCells(key) ==
    CASE key \in EpochKeys -> {<<"x">>}
      [] key \in {<<"s","t","a","r","t","T","i","m","e">>, <<"e","n","d","T","i","m","e">>} -> {<<"5">>}
      [] key \in {<<"s","t","a","r","t","_","t","s">>, <<"S","T","A","R","T">>} -> {<<"5">>, <<"1","9","7","0","-","0","1","-","0","1"," ","0","0",":","0","0",":","0","5",".","5">>}
      [] key \in {<<"s","t","o","p","_","t","s">>, <<"E","N","D">>} ->
           {<<"1","9","7","0","-","0","1","-","0","1"," ","0","0",":","0","0",":","0","5",".","0","0","0","9">>, <<"1","9","7","0","-","0","1","-","0","1"," ","0","0",":","0","0",":","6","1">>, <<"1","9","7","0","-","0","1","-","0","1","T","0","0",":","0","0",":","0","5">>}
      [] key \in MillisKeys -> {<<"1",".","5">>}
      [] key \in {<<"d","u","r","a","t","i","o","n">>, <<"o","f","f","s","e","t","_","s">>} -> {<<"1","s">>}
      [] key = <<"O","F","F","S","E","T">> -> {<<"1","s">>, <<"1","e">>, <<".">>}
      [] key \in BerKeys -> {<<>>}
      [] key \in StatusKeys ->
           {<<"n","o","_","d","a","t","a">>, <<"M","a","t","c","h">>, <<"3">>, <<"0">>, <<"N","O","S","O","U","N","D">>, <<"b","o","g","u","s">>, <<>>,
            <<"n","o","_">> \o <<"U+017F">> \o <<"o","u","n","d">>}
      [] OTHER -> {}

CellsFor(key) == GoodCells(key) \cup BadCells(key)

RECURSIVE CellSeqs(_)
\* the rows with one cell for each column of hdr
CellSeqs(hdr) ==
    IF hdr = <<>> THEN {<<>>}
    ELSE {<<c>> \o r : c \in CellsFor(hdr[1]), r \in CellSeqs(Tail(hdr))}

\* a cell beyond the last column of the header
ExtraCells == {<<"x">>}

\* the rows for a header: shorter than it, as long, or one cell longer
Rows(hdr) ==
    UNION {CellSeqs(SubSeq(hdr, 1, m)) : m \in 1..Len(hdr)}
        \cup {r \o <<x>> : r \in CellSeqs(hdr), x \in ExtraCells}

CsvLines(hdr) == {Join(r, ",") : r \in Rows(hdr)}

(***************************************************************************)
(* read on a table of up to MaxRows lines                                  *)
(***************************************************************************)
TableKeys == {<<"t","S","t","a","r","t">>, <<"o","f","f","s","e","t">>}
TableLines == {OkLine(<<"5">>), OkLine(<<"5",",","3">>), OkLine(<<"x",",","3">>), OkLine(<<"7",",","1",",","x">>), BadLine}

CsvTables ==
    {<<OkLine(Join(h, ","))>> \o rows :
        h \in Headers(TableKeys, MaxCols), rows \in SeqsUpTo(TableLines, MaxRows)}

TsvTable == <<OkLine(<<"t","S","t","a","r","t">> \o <<"\t">> \o <<"o","f","f","s","e","t">>), OkLine(<<"5">> \o <<"\t">> \o <<"3">>)>>

\* the file system: what each path holds
Files(p) ==
    CASE p = <<"a",".","c","s","v">> -> {None, Some(<<>>), Some(<<BadLine>>)} \cup {Some(t) : t \in CsvTables}
      [] p = <<"d","i","r",".","d","/","b",".","t","s","v">> -> {Some(TsvTable)}
      [] OTHER -> {None, Some(<<OkLine(<<"t","S","t","a","r","t",",","o","f","f","s","e","t">>), OkLine(<<"5",",","3">>)>>)}

Paths ==
    {<<"a",".","c","s","v">>, <<"d","i","r",".","d","/","b",".","t","s","v">>, <<"a",".","t","x","t">>, <<"a",".","C","S","V">>, <<"a",".","T","s","v">>, <<"a">>, <<".","c","s","v">>, <<"a",".","c","s","v",".","b","a","k">>,
     <<"a",".","c","s","v","/",".",".">>, <<"d","i","r",".","c","s","v","/","a">>, <<"a","c","s","v">>, <<"a",".">>, <<"a",".","c","s","v","x">>}

Idle ==
    /\ opened = FALSE
    /\ sep = None
    /\ source = <<>>
    /\ header = <<>>
    /\ consumed = <<>>
    /\ line = <<>>
    /\ i = 0
    /\ vp = ViewingPeriod_default
    /\ offset = None
    /\ end_time = None
    /\ periods = <<>>
    /\ result = None
    /\ panic = ""
    /\ shown = None
    /\ viewed = None

Init ==
    /\ pc = "read"
    /\ path \in Paths
    /\ file \in Files(path)
    /\ Idle

Spec == Init /\ [][Next]_vars

(***************************************************************************)
(* read on a table with one typed column and up to AbortRows lines, or on  *)
(* a table of one line with cells at the ends of the ranges                *)
(***************************************************************************)
TypedKeys == EpochKeys \cup StartKeys \cup EndKeys \cup SecondsKeys \cup MillisKeys \cup BerKeys

TypedTables ==
    UNION {{<<OkLine(Join(<<<<"u","s","e","r","I","D">>, k>>, ","))>> \o rows :
                rows \in SeqsUpTo({OkLine(<<"u",",">> \o c) : c \in CellsFor(k)} \cup {BadLine},
                                  AbortRows)} :
           k \in TypedKeys}

\* cells beyond the ends of the ranges of i64, of Duration and of the dates
EdgeCells(key) ==
    CASE key \in EpochKeys ->
           {<<"9","2","2","3","3","7","2","0","3","6","8","5","4","7","7","5","8","0","7">>, <<"9","2","2","3","3","7","2","0","3","6","8","5","4","7","7","5","8","0","8">>, <<"-","9","2","2","3","3","7","2","0","3","6","8","5","4","7","7","5","8","0","8">>,
            <<"8","2","1","0","2","6","6","8","7","6","8","0","0","0","0","0">>, <<"-","8","3","3","4","6","0","1","2","2","8","8","0","0","0","0","1">>}
      [] key \in MillisKeys ->
           {<<"-","9","2","2","3","3","7","2","0","3","6","8","5","4","7","7","5","8","0","8">>, <<"-","9","2","2","3","3","7","2","0","3","6","8","5","4","7","7","5","8","0","9">>, <<"9","2","2","3","3","7","2","0","3","6","8","5","4","7","7","5","8","0","8">>}
      [] key \in SecondsKeys -> {<<"-","i","n","f">>, <<"-","1","e","3","0","0">>, <<"-","9","2","2","3","3","7","2","0","3","6","8","5","4","7","7","5",".","8","0","8">>}
      [] OTHER -> {}

\* the last and the first instant of the dates
LastInstant == <<"+","2","6","2","1","4","2","-","1","2","-","3","1"," ","2","3",":","5","9",":","5","9",".","9","9","9">>
FirstInstant == <<"-","2","6","2","1","4","3","-","0","1","-","0","1"," ","0","0",":","0","0",":","0","0",".","0","0","0">>

\* tables of one line: an edge cell in a typed column, or a start time at
\* an end of the dates with an offset
EdgeTables ==
    UNION {{<<OkLine(Join(<<<<"u","s","e","r","I","D">>, k>>, ",")), OkLine(<<"u",",">> \o c)>> : c \in EdgeCells(k)} :
           k \in TypedKeys}
        \cup {<<OkLine(<<"s","t","a","r","t","T","i","m","e",",","o","f","f","s","e","t">>), OkLine(Join(<<t, c>>, ","))>> :
                 t \in {LastInstant, FirstInstant}, c \in {<<"-","1">>, <<"1">>, <<"-","8","6","4","0","0","0","0","1">>}}
        \cup {<<OkLine(<<"o","f","f","s","e","t",",","s","t","a","r","t","T","i","m","e">>), OkLine(<<"-","1",",">> \o LastInstant)>>,
               <<OkLine(<<"t","S","t","a","r","t",",","o","f","f","s","e","t">>), OkLine(<<"8","2","1","0","2","6","6","8","7","6","7","9","9","9","9","9",",","1">>)>>,
               <<OkLine(<<"t","S","t","a","r","t",",","o","f","f","s","e","t">>), OkLine(<<"-","8","3","3","4","6","0","1","2","2","8","8","0","0","0","0","0",",","-","1">>)>>}

InitTyped ==
    /\ pc = "read"
    /\ path = <<"a",".","c","s","v">>
    /\ file \in {Some(t) : t \in TypedTables \cup EdgeTables}
    /\ Idle

SpecTyped == InitTyped /\ [][Next]_vars

(***************************************************************************)
(* line_to_period on one line                                              *)
(***************************************************************************)
InitLine(keys, n) ==
    /\ pc = "map"
    /\ path = <<"a",".","c","s","v">>
    /\ header \in Headers(keys, n)
    /\ line \in CsvLines(header)
    /\ file = Some(<<OkLine(Join(header, ",")), OkLine(line)>>)
    /\ opened = TRUE
    /\ sep = Some(",")
    /\ source = <<>>
    /\ consumed = <<OkLine(line)>>
    /\ i = 0
    /\ vp = ViewingPeriod_default
    /\ offset = None
    /\ end_time = None
    /\ periods = <<>>
    /\ result = None
    /\ panic = ""
    /\ shown = None
    /\ viewed = None

StatusLineKeys == {<<"s","t","a","t","u","s">>, <<"s","t","r","e","a","m","_","i","d">>, <<"n","M","a","t","c","h","e","s">>}

InitStatusLine == InitLine(StatusLineKeys, StatusCols)

SpecStatusLine == InitStatusLine /\ [][NextLineToPeriod]_vars

TimeLineKeys == {<<"t","i","m","e","I","n","F","i","l","e">>, <<"t","S","t","a","r","t">>, <<"o","f","f","s","e","t">>, <<"e","n","d","T","i","m","e">>, <<"d","u","r","a","t","i","o","n","M","s","e","c">>, <<"n","M","a","t","c","h","e","s">>}

InitTimeLine == InitLine(TimeLineKeys, TimeCols)

SpecTimeLine == InitTimeLine /\ [][NextLineToPeriod]_vars

(***************************************************************************)
(* line_to_period on one line, and Display::fmt on its record              *)
(***************************************************************************)
\* the longest header of a line whose record is shown, EdgeShownLines apart
ShownCols == 2

ShownLineKeys ==
    {<<"t","S","t","a","r","t">>, <<"s","t","a","r","t","T","i","m","e">>, <<"d","u","r","a","t","i","o","n","M","s","e","c">>, <<"d","u","r","a","t","i","o","n">>, <<"o","f","f","s","e","t">>, <<"o","f","f","s","e","t","_","s">>,
     <<"e","n","d","T","i","m","e">>, <<"b","i","t","E","r","r","o","r","R","a","t","e">>, <<"s","t","a","t","u","s">>}

\* the cells of a column of a line whose record is shown
ShownCells(key) ==
    CASE key = <<"t","S","t","a","r","t">> -> {<<"5">>, <<"1","6","7","3","5","3","1","4","0","0">>}
      [] key = <<"d","u","r","a","t","i","o","n","M","s","e","c">> -> {<<"4">>, <<"1","0","0","0">>, <<"1","2","9","2","8">>, <<"-","1","5","0","0">>}
      [] key = <<"d","u","r","a","t","i","o","n">> -> {<<"1",".","5">>, <<"1",".","0","0","1">>, <<"1",".","0","0","5">>}
      [] key = <<"o","f","f","s","e","t">> -> {<<"3">>, <<"2","0","0","0">>}
      [] key = <<"b","i","t","E","r","r","o","r","R","a","t","e">> -> {<<"0",".","2","4","7","5","9","7">>, <<"-","0",".","0","0","1">>, <<"1","2",".","5">>, <<"0",".","0","1","5">>, <<"-","0">>, <<"n","a","n">>}
      [] key = <<"s","t","a","t","u","s">> -> {<<"N","O","_","D","A","T","A">>, <<"3">>}
      [] OTHER -> GoodCells(key)

RECURSIVE ShownRows(_)
ShownRows(hdr) ==
    IF hdr = <<>> THEN {<<>>}
    ELSE {<<c>> \o r : c \in ShownCells(hdr[1]), r \in ShownRows(Tail(hdr))}

\* lines with a start time at an end of the dates: the end time of the
\* record is inside the dates, or beyond them
EdgeShownLines ==
    {[header |-> <<<<"s","t","a","r","t","T","i","m","e">>, <<"o","f","f","s","e","t">>, <<"d","u","r","a","t","i","o","n","M","s","e","c">>>>, line |-> Join(r \o <<c>>, ",")] :
        r \in {<<LastInstant, <<"1">>>>, <<FirstInstant, <<"-","1">>>>}, c \in {<<"-","1">>, <<"0">>, <<"1">>}}
        \cup {[header |-> <<<<"o","f","f","s","e","t">>, <<"t","S","t","a","r","t">>, <<"d","u","r","a","t","i","o","n">>>>, line |-> <<"1",",","8","2","1","0","2","6","6","8","7","6","7","9","9","9","9","9",",","0",".","0","0","1">>],
               [header |-> <<<<"o","f","f","s","e","t">>, <<"t","S","t","a","r","t">>, <<"d","u","r","a","t","i","o","n">>>>, line |-> <<"1",",","8","2","1","0","2","6","6","8","7","6","7","9","9","0","0","0",",","0",".","9","9","9">>]}

ShownLines ==
    UNION {{[header |-> h, line |-> Join(r, ",")] : r \in ShownRows(h)} :
           h \in Headers(ShownLineKeys, ShownCols)}
        \cup EdgeShownLines

InitShownLine ==
    /\ pc = "map"
    /\ path = <<"a",".","c","s","v">>
    /\ \E input \in ShownLines : header = input.header /\ line = input.line
    /\ file = Some(<<OkLine(Join(header, ",")), OkLine(line)>>)
    /\ opened = TRUE
    /\ sep = Some(",")
    /\ source = <<>>
    /\ consumed = <<OkLine(line)>>
    /\ i = 0
    /\ vp = ViewingPeriod_default
    /\ offset = None
    /\ end_time = None
    /\ periods = <<>>
    /\ result = None
    /\ panic = ""
    /\ shown = None
    /\ viewed = None

SpecShownLine == InitShownLine /\ [][NextShownLine]_vars

(***************************************************************************)
(* line_to_period on one line with columns that name the same field        *)
(***************************************************************************)
\* the longest header of such a line
AliasCols == 3

AliasLineKeys ==
    {<<"i","d">>, <<"p","e","r","i","o","d","_","i","d">>, <<"t","S","t","a","r","t">>, <<"s","t","a","r","t","T","i","m","e">>, <<"d","u","r","a","t","i","o","n","M","s","e","c">>, <<"d","u","r","a","t","i","o","n">>,
     <<"e","n","d","T","i","m","e">>, <<"s","t","a","t","u","s">>, <<"S","t","a","t","u","s">>, <<"s","t","r","e","a","m","_","i","d">>}

\* the cells of a column of such a line
AliasCells(key) ==
    CASE key = <<"i","d">> -> {<<"x">>}
      [] key = <<"p","e","r","i","o","d","_","i","d">> -> {<<"5">>}
      [] key = <<"t","S","t","a","r","t">> -> {<<"5">>}
      [] key = <<"s","t","a","r","t","T","i","m","e">> -> {<<"1","9","7","0","-","0","1","-","0","1"," ","0","0",":","0","0",":","0","7",".","0","0","0">>}
      [] key = <<"d","u","r","a","t","i","o","n","M","s","e","c">> -> {<<"4">>}
      [] key = <<"d","u","r","a","t","i","o","n">> -> {<<"1",".","5">>}
      [] key = <<"e","n","d","T","i","m","e">> -> {<<"1","9","7","0","-","0","1","-","0","1"," ","0","0",":","0","0",":","0","9",".","5","0","0">>}
      [] key = <<"s","t","a","t","u","s">> -> {<<"N","O","_","D","A","T","A">>}
      [] key = <<"S","t","a","t","u","s">> -> {<<"N","O","_","S","O","U","N","D">>, <<"b","o","g","u","s">>}
      [] key = <<"s","t","r","e","a","m","_","i","d">> -> {<<"3","2","9">>, <<"0">>}

RECURSIVE AliasRows(_)
AliasRows(hdr) ==
    IF hdr = <<>> THEN {<<>>}
    ELSE {<<c>> \o r : c \in AliasCells(hdr[1]), r \in AliasRows(Tail(hdr))}

InitAliasLine ==
    /\ pc = "map"
    /\ path = <<"a",".","c","s","v">>
    /\ header \in Headers(AliasLineKeys, AliasCols)
    /\ line \in {Join(r, ",") : r \in AliasRows(header)}
    /\ file = Some(<<OkLine(Join(header, ",")), OkLine(line)>>)
    /\ opened = TRUE
    /\ sep = Some(",")
    /\ source = <<>>
    /\ consumed = <<OkLine(line)>>
    /\ i = 0
    /\ vp = ViewingPeriod_default
    /\ offset = None
    /\ end_time = None
    /\ periods = <<>>
    /\ result = None
    /\ panic = ""
    /\ shown = None
    /\ viewed = None

SpecAliasLine == InitAliasLine /\ [][NextLineToPeriod]_vars

(***************************************************************************)
(* line_to_period on one line with columns of the pending values           *)
(***************************************************************************)
\* the longest header of such a line
PendingCols == 3

PendingLineKeys ==
    {<<"t","S","t","a","r","t">>, <<"s","t","a","r","t","T","i","m","e">>, <<"t","i","m","e","I","n","F","i","l","e">>, <<"o","f","f","s","e","t">>, <<"o","f","f","s","e","t","_","s">>, <<"e","n","d","T","i","m","e">>,
     <<"d","u","r","a","t","i","o","n","M","s","e","c">>}

\* the cells of a column of such a line
PendingCells(key) ==
    CASE key = <<"t","i","m","e","I","n","F","i","l","e">> -> {<<"7">>}
      [] key = <<"e","n","d","T","i","m","e">> ->
           {<<"1","9","7","0","-","0","1","-","0","1"," ","0","0",":","0","0",":","0","9",".","5","0","0">>, <<"1","9","7","0","-","0","1","-","0","1"," ","0","0",":","0","0",":","1","2">>, <<"1","9","7","0","-","0","1","-","0","1"," ","0","0",":","0","0",":","6","0">>}
      [] OTHER -> GoodCells(key)

RECURSIVE PendingRows(_)
PendingRows(hdr) ==
    IF hdr = <<>> THEN {<<>>}
    ELSE {<<c>> \o r : c \in PendingCells(hdr[1]), r \in PendingRows(Tail(hdr))}

InitPendingLine ==
    /\ pc = "map"
    /\ path = <<"a",".","c","s","v">>
    /\ header \in Headers(PendingLineKeys, PendingCols)
    /\ line \in {Join(r, ",") : r \in PendingRows(header)}
    /\ file = Some(<<OkLine(Join(header, ",")), OkLine(line)>>)
    /\ opened = TRUE
    /\ sep = Some(",")
    /\ source = <<>>
    /\ consumed = <<OkLine(line)>>
    /\ i = 0
    /\ vp = ViewingPeriod_default
    /\ offset = None
    /\ end_time = None
    /\ periods = <<>>
    /\ result = None
    /\ panic = ""
    /\ shown = None
    /\ viewed = None

SpecPendingLine == InitPendingLine /\ [][NextLineToPeriod]_vars

(***************************************************************************)
(* end_time() and offset() on a record: one that line_to_period has        *)
(* returned for a line with columns of the pending values, or one built    *)
(* field by field                                                          *)
(***************************************************************************)
\* instants: the epoch, times of its first day, and a leap second
ViewInstants ==
    {Instant(0), Instant(5), Instant(9500), DateTime(0, 86399, 999),
     DateTime(0 - 1, 86399, 1900), DateTime(0, 86399, 1000)}

\* the last instants and the first instants of the dates
LastInstants == {DateTime(95026236, 86399, 999), DateTime(95026236, 86399, 0)}
FirstInstants == {DateTime(0 - 96465292, 0, 0), DateTime(0 - 96465292, 0, 1)}

ViewDurations == {0, 1, 0 - 1, 4, 0 - 250, 1000, 9495, 86400000, 0 - 86400001}

\* records with a query_time and a time_in_file that are both near the
\* epoch or both at one end of the dates
ViewRecords ==
    UNION {{[ViewingPeriod_default EXCEPT
                 !.query_time = q, !.time_in_file = t, !.duration = d] :
               q \in S, t \in S, d \in ViewDurations} :
           S \in {ViewInstants, LastInstants, FirstInstants}}

InitViews ==
    \/ InitPendingLine
    \/ /\ pc = "lines"
       /\ path = <<"a",".","c","s","v">>
       /\ file = None
       /\ opened = FALSE
       /\ sep = None
       /\ source = <<>>
       /\ header = <<>>
       /\ consumed = <<>>
       /\ line = <<>>
       /\ i = 0
       /\ vp = ViewingPeriod_default
       /\ offset = None
       /\ end_time = None
       /\ periods \in {<<r>> : r \in ViewRecords}
       /\ result = None
       /\ panic = ""
       /\ shown = None
       /\ viewed = None

SpecViews == InitViews /\ [][NextViews]_vars

(***************************************************************************)
(* Properties                                                              *)
(***************************************************************************)
\* the cells of the line line_to_period is working on
Cells == split(line, sep.v)

\* the loop of line_to_period is about to process a column named in keys
AtColumn(keys) == pc = "line_to_period" /\ i <= Len(Pairs) /\ Pairs[i].key \in keys

\* ... and the cell of that column, as the match sees it
CellValue == clean_value(Pairs[i].raw_value)

\* the stream_id values that stand for "no match"
NoMatchTokens == {<<>>, <<"0">>, <<"N","O","_","D","A","T","A">>, <<"N","O","_","M","A","T","C","H">>, <<"N","O","_","S","O","U","N","D">>}

HasMatchedStream(r) == r.stream_id.some /\ r.stream_id.v \notin NoMatchTokens

\* the lines of consumed that could be read
ReadableLines == SelectSeq(consumed, LAMBDA it : it.ok)

\* C1: every record returned by line_to_period whose stream_id is present
\* and is none of "", "0", NO_DATA, NO_MATCH, NO_SOUND has status Match,
\* whatever the order of the columns and whatever the status cells held.
C1_StreamImpliesMatch ==
    \A k \in 1..Len(periods) : HasMatchedStream(periods[k]) => periods[k].status = "Match"

\* a status column NO_DATA after the stream_id column 329: the record is Match
C1_Witness ==
    /\ pc = "lines"
    /\ header = <<<<"s","t","r","e","a","m","_","i","d">>, <<"s","t","a","t","u","s">>>>
    /\ line = <<"3","2","9",",","N","O","_","D","A","T","A">>
    /\ Len(periods) = 1
    /\ periods[1].stream_id = Some(<<"3","2","9">>)
    /\ periods[1].status = "Match"

\* a cell of a typed column that the parser of the column rejects: for a
\* timestamp, no i64 or no instant of the dates
MalformedCell(key, value) ==
    \/ key \in EpochKeys /\ (parse_i64(value).ok => ~from_timestamp_millis(parse_i64(value).v).ok)
    \/ key \in MillisKeys /\ duration_from_millis(value).panic
    \/ key \in StartKeys \cup EndKeys /\ parse_datetime_str(value).panic
    \/ key \in SecondsKeys /\ duration_from_seconds(value).panic
    \/ key \in BerKeys /\ parse_ber(value).panic

\* a line that holds a malformed cell in a column of the header
MalformedRow(item) ==
    /\ item.ok
    /\ \E k \in 1..Min(Len(header), Len(split(item.text, sep.v))) :
           MalformedCell(header[k], clean_value(split(item.text, sep.v)[k]))

\* the number of readable lines among the first n lines consumed
ReadableAmong(n) == Len(SelectSeq(SubSeq(consumed, 1, n), LAMBDA it : it.ok))

\* C2: once a data line with a malformed cell in a typed column has been
\* taken from the input, nothing is ever returned, that line gets no
\* record, and no later line is taken: the run is in that line or panicked.
C2_MalformedCellAborts ==
    \A k \in 1..Len(consumed) :
        MalformedRow(consumed[k]) =>
            /\ result = None
            /\ k = Len(consumed)
            /\ Len(periods) = ReadableAmong(k - 1)
            /\ pc \in {"map", "line_to_period", "panicked"}

\* the run panicked on a malformed line that follows a well-formed one and
\* is followed by lines never read
C2_Witness ==
    /\ pc = "panicked"
    /\ Len(periods) >= 1
    /\ source # <<>>
    /\ MalformedRow(consumed[Len(consumed)])

\* the status spellings the specification of the format lists
ExactStatus == {<<"M","A","T","C","H">>, <<"N","O","_","M","A","T","C","H">>, <<"N","O","_","D","A","T","A">>, <<"N","O","_","S","O","U","N","D">>}

\* C3 as stated: a status cell that is not exactly MATCH, NO_MATCH, NO_DATA
\* or NO_SOUND leaves the status as it was.
C3_ExactStatusOnly ==
    [][AtColumn(StatusKeys) /\ CellValue \notin ExactStatus => vp'.status = vp.status]_vars

\* the spellings Status::from_str accepts once the cell is upper-cased
StatusTokens ==
    {<<"0">>, <<"M","A","T","C","H">>, <<"1">>, <<"N","O","_","M","A","T","C","H">>, <<"N","O","M","A","T","C","H">>, <<"2">>, <<"N","O","_","D","A","T","A">>, <<"N","O","D","A","T","A">>,
     <<"3">>, <<"N","O","_","S","O","U","N","D">>, <<"N","O","S","O","U","N","D">>}

StatusOfToken(u) ==
    CASE u \in {<<"0">>, <<"M","A","T","C","H">>} -> "Match"
      [] u \in {<<"1">>, <<"N","O","_","M","A","T","C","H">>, <<"N","O","M","A","T","C","H">>} -> "NoMatch"
      [] u \in {<<"2">>, <<"N","O","_","D","A","T","A">>, <<"N","O","D","A","T","A">>} -> "NoData"
      [] u \in {<<"3">>, <<"N","O","_","S","O","U","N","D">>, <<"N","O","S","O","U","N","D">>} -> "NoSound"

\* C3 amended: a status cell changes the status only when the trimmed cell,
\* upper-cased, is one of MATCH or 0, NO_MATCH, NOMATCH or 1, NO_DATA, NODATA
\* or 2, NO_SOUND, NOSOUND or 3, and then to the status of that spelling;
\* such a cell sets the status of that spelling unless the stream_id of the
\* row is a matched stream (which keeps it Match).
C3_UppercasedStatus ==
    [][AtColumn(StatusKeys) =>
          /\ vp'.status # vp.status =>
                 /\ to_uppercase(CellValue) \in StatusTokens
                 /\ vp'.status = StatusOfToken(to_uppercase(CellValue))
          /\ to_uppercase(CellValue) \in StatusTokens /\ ~HasMatchedStream(vp) =>
                 vp'.status = StatusOfToken(to_uppercase(CellValue))]_vars

\* the status cell no_data has changed the status from the default to NoData
C3_Witness ==
    /\ pc = "line_to_period"
    /\ i = 2
    /\ header[1] = <<"s","t","a","t","u","s">>
    /\ Cells[1] = <<"n","o","_","d","a","t","a">>
    /\ vp.status = "NoData"

\* C4: separator yields the comma exactly for the extension csv, the tab
\* exactly for tsv, and nothing otherwise; then read panics with
\* "unsupported file extension" with the file not opened and nothing read.
C4_ExtensionDecides ==
    /\ separator(path) =
           IF Path_extension(path) = Some(<<"c","s","v">>) THEN Some(",")
           ELSE IF Path_extension(path) = Some(<<"t","s","v">>) THEN Some("\t")
           ELSE None
    /\ pc # "read" =>
           IF Path_extension(path) = Some(<<"c","s","v">>) THEN sep = Some(",")
           ELSE IF Path_extension(path) = Some(<<"t","s","v">>) THEN sep = Some("\t")
           ELSE /\ pc = "panicked"
                /\ panic = "unsupported file extension"
                /\ sep = None
                /\ ~opened
                /\ source = <<>>
                /\ header = <<>>
                /\ consumed = <<>>
                /\ periods = <<>>
                /\ result = None

\* read has panicked on a.CSV, a file that exists and was never opened
C4_Witness ==
    /\ pc = "panicked"
    /\ path = <<"a",".","C","S","V">>
    /\ file.some
    /\ ~opened

\* every column name of the alias table
KnownKeys ==
    StatusKeys \cup {<<"u","s","e","r","I","D">>, <<"r","s","s","_","i","d">>, <<"D","E","V","I","C","E","_","I","D">>} \cup EpochKeys \cup StartKeys
        \cup MillisKeys \cup SecondsKeys \cup StreamKeys
        \cup {<<"m","o","d","u","l","e","_","r","e","f">>, <<"p","e","r","i","o","d","_","i","d">>, <<"i","d">>, <<"v","a","l","i","d">>} \cup BerKeys \cup EndKeys

\* the pairs of the line whose column name is in the alias table
KnownPairs == SelectSeq(Pairs, LAMBDA p : p.key \in KnownKeys)

\* C5: a pass of the loop on a column name outside the alias table changes
\* neither the record nor the pending offset and end_time and is not fatal;
\* and the outcome of a line (its record, or its panic) is the outcome of
\* the loop over the pairs with a known column name alone.
C5_UnknownColumnIgnored ==
    /\ [][pc = "line_to_period" /\ i <= Len(Pairs) /\ Pairs[i].key \notin KnownKeys =>
              /\ vp' = vp
              /\ offset' = offset
              /\ end_time' = end_time
              /\ pc' = pc
              /\ panic' = panic]_vars
    /\ [](/\ pc = "lines" /\ periods # <<>> =>
                /\ periods[1] = vp
                /\ fold_pairs(line_to_period_init, KnownPairs)
                       = Value([vp |-> vp, offset |-> offset, end_time |-> end_time])
          /\ pc = "panicked" =>
                fold_pairs(line_to_period_init, KnownPairs) = Panic(panic))

\* an unknown column has been passed while an offset was pending
C5_Witness ==
    /\ pc = "line_to_period"
    /\ i = 3
    /\ Len(Pairs) = 3
    /\ header[1] = <<"o","f","f","s","e","t">>
    /\ header[2] = <<"n","M","a","t","c","h","e","s">>
    /\ offset = Some(3)
    /\ vp.time_in_file = Instant(0 - 3)

\* the number of pairs: the shorter of the header and the row
ZipLen == Min(Len(header), Len(Cells))

\* C6: the loop passes over exactly the first min(n, m) pairs: it never
\* goes further, a panic comes from one of those pairs, and the record
\* returned is the record of the header and the row both cut to min(n, m).
C6_PairsStopAtShorter ==
    /\ pc = "line_to_period" => i <= ZipLen + 1
    /\ pc = "panicked" => i <= ZipLen
    /\ pc = "lines" /\ periods # <<>> =>
           /\ i = ZipLen + 1
           /\ Value(periods[1]) =
                  line_to_period(Join(SubSeq(Cells, 1, ZipLen), ","),
                                 SubSeq(header, 1, ZipLen), ",")

\* a row of one cell under a header of three columns: the fields of the
\* two columns without a cell are the defaults
C6_Witness ==
    /\ pc = "lines"
    /\ header = <<<<"t","S","t","a","r","t">>, <<"o","f","f","s","e","t">>, <<"t","i","m","e","I","n","F","i","l","e">>>>
    /\ line = <<"5">>
    /\ Len(periods) = 1
    /\ periods[1].query_time = Instant(5)
    /\ periods[1].time_in_file = Instant(0)

RECURSIVE RecordsOf(_)
\* the records of the readable lines among items, in order
RecordsOf(items) ==
    IF items = <<>> THEN <<>>
    ELSE IF ~Head(items).ok THEN RecordsOf(Tail(items))
    ELSE <<line_to_period(Head(items).text, header, sep.v).v>> \o RecordsOf(Tail(items))

\* C7: between lines the records collected are those of the readable lines
\* taken so far, in order; read_periods returns when every data line has
\* been taken, and returns exactly the records of the readable ones.
C7_OneRecordPerLine ==
    /\ pc = "lines" => periods = RecordsOf(consumed)
    /\ pc = "done" =>
           /\ consumed = Tail(file.v)
           /\ result = Some(RecordsOf(consumed))
           /\ Len(result.v) = Len(ReadableLines)
    /\ pc # "done" => result = None

\* two records returned for three lines, the second of which was unreadable
C7_Witness ==
    /\ pc = "done"
    /\ Len(consumed) = 3
    /\ consumed[1].ok
    /\ ~consumed[2].ok
    /\ consumed[3].ok
    /\ Len(result.v) = 2
    /\ result.v[1] # result.v[2]

\* the status cell is not a spelling of a status
UnparsedStatus == AtColumn(StatusKeys) /\ to_uppercase(CellValue) \notin StatusTokens

\* C8: a pass of the loop on a status cell that is no spelling of a status
\* changes nothing of the record or the pending values, is not fatal, and
\* the loop goes on to the next column.
C8_UnparsedStatusKept ==
    [][UnparsedStatus =>
          /\ vp' = vp
          /\ offset' = offset
          /\ end_time' = end_time
          /\ periods' = periods
          /\ i' = i + 1
          /\ pc' = pc
          /\ panic' = panic]_vars

\* the status cell bogus after the status cell NO_DATA: the status is NoData
C8_Witness ==
    /\ pc = "line_to_period"
    /\ i = 3
    /\ header = <<<<"s","t","a","t","u","s">>, <<"s","t","a","t","u","s">>>>
    /\ Cells = <<<<"N","O","_","D","A","T","A">>, <<"b","o","g","u","s">>>>
    /\ vp.status = "NoData"

\* C9: two readable lines with the same text have the same record, whatever
\* lines came before each of them.
C9_RowsIndependent ==
    \A j, k \in 1..Len(periods) :
        ReadableLines[j].text = ReadableLines[k].text => periods[j] = periods[k]

\* the same line before and after a line that sets a pending offset
C9_Witness ==
    /\ Len(periods) = 3
    /\ header = <<<<"t","S","t","a","r","t">>, <<"o","f","f","s","e","t">>>>
    /\ ReadableLines[1].text = <<"5">>
    /\ ReadableLines[2].text = <<"5",",","3">>
    /\ ReadableLines[3].text = <<"5">>
    /\ periods[2].time_in_file = Instant(2)
    /\ periods[3].time_in_file = Instant(0)

\* t is a leap second: its second is written 60
IsLeapSecond(t) == t.frac >= MillisPerSecond

\* the instant d milliseconds after t on the time line, for a t that is not
\* within a leap second
TimeLineAfter(t, d) ==
    DateTime(t.days + (t.secs * MillisPerSecond + t.frac + d) \div MillisPerDay,
             ((t.secs * MillisPerSecond + t.frac + d) % MillisPerDay) \div MillisPerSecond,
             (t.secs * MillisPerSecond + t.frac + d) % MillisPerSecond)

\* the milliseconds from t to u on the time line, neither within a leap
\* second
TimeLineBetween(t, u) ==
    (u.days - t.days) * MillisPerDay + (u.secs - t.secs) * MillisPerSecond
        + (u.frac - t.frac)

\* C10: what end_time() returns for a record is query_time + duration, and
\* what offset() returns is query_time - time_in_file, for a record
\* line_to_period has built from any columns and for a record of any
\* fields: the + and - of chrono, which off a leap second give the instant
\* the duration after query_time and the time from time_in_file to
\* query_time; end_time() panics only when that instant is outside the dates.
C10_DerivedViews ==
    /\ viewed.some /\ viewed.v.of = "end_time" =>
           /\ Value(viewed.v.value)
                  = DateTime_add(periods[1].query_time, periods[1].duration)
           /\ ~IsLeapSecond(periods[1].query_time) =>
                  viewed.v.value
                      = TimeLineAfter(periods[1].query_time, periods[1].duration)
    /\ viewed.some /\ viewed.v.of = "offset" =>
           /\ viewed.v.value
                  = DateTime_since(periods[1].query_time, periods[1].time_in_file)
           /\ ~IsLeapSecond(periods[1].query_time)
                  /\ ~IsLeapSecond(periods[1].time_in_file) =>
                  viewed.v.value
                      = TimeLineBetween(periods[1].time_in_file, periods[1].query_time)
    /\ pc = "panicked" /\ periods # <<>> =>
           /\ panic = "DateTime + TimeDelta overflowed"
           /\ ~IsLeapSecond(periods[1].query_time) =>
                  TimeLineAfter(periods[1].query_time, periods[1].duration).days
                      \notin DateRange

\* end_time() called on the record of a line with a start, an offset and an
\* end time: it has returned the start plus the duration
C10_Witness ==
    /\ pc = "lines"
    /\ header # <<>>
    /\ Len(periods) = 1
    /\ periods[1].query_time = Instant(5)
    /\ periods[1].time_in_file = Instant(2)
    /\ periods[1].duration = 9495
    /\ viewed = Some([of |-> "end_time", value |-> Instant(9500)])

\* the text of d milliseconds in seconds, with three decimal places
SecondsText(d) ==
    LET a == IF d < 0 THEN 0 - d ELSE d
    IN  (IF d < 0 THEN <<"-">> ELSE <<>>) \o NatText(a \div 1000) \o <<".">>
            \o ZeroPad(NatText(a % 1000), 3)

\* C11: the record shown gives its offset and its duration, of d
\* milliseconds each, as d in seconds with three decimal places (12928 is
\* shown as 12.928).
C11_SecondsWithMillis ==
    shown.some =>
        /\ shown.v[5] = <<"o","f","f","s","e","t","_","s",":"," ">> \o SecondsText(ViewingPeriod_offset(periods[1])) \o <<","," ">>
        /\ Len(shown.v) >= 8 =>
               shown.v[8] = <<"d","u","r","a","t","i","o","n",":"," ">> \o SecondsText(periods[1].duration) \o <<","," ">>

\* line_to_period has returned the record of a line whose last pair is a
\* status column with a spelling of a status
EndsWithStatus ==
    /\ pc = "lines"
    /\ periods # <<>>
    /\ Pairs # <<>>
    /\ Pairs[Len(Pairs)].key \in StatusKeys
    /\ to_uppercase(clean_value(Pairs[Len(Pairs)].raw_value)) \in StatusTokens

\* the status that last status cell spells
LastStatus == StatusOfToken(to_uppercase(clean_value(Pairs[Len(Pairs)].raw_value)))

\* C12 as stated: a status column with a valid value other than Match that
\* comes after a stream_id column with a non-sentinel value decides the
\* status of the record.
C12_LastWriteWins ==
    /\ EndsWithStatus
    /\ LastStatus # "Match"
    /\ \E j \in 1..(Len(Pairs) - 1) : Pairs[j].key \in StreamKeys
    /\ HasMatchedStream(periods[1])
    => periods[1].status = LastStatus

\* C12 amended: the inference runs again after the status column, so the
\* record of a line that ends with a valid status column has status Match
\* when its stream_id is a non-sentinel value, and the status of that column
\* only otherwise.
C12_InferenceOverridesStatus ==
    EndsWithStatus =>
        periods[1].status = IF HasMatchedStream(periods[1]) THEN "Match" ELSE LastStatus

\* the status column NO_MATCH after the stream_id column 329: the record is
\* Match
C12_Witness ==
    /\ pc = "lines"
    /\ header = <<<<"s","t","r","e","a","m","_","i","d">>, <<"s","t","a","t","u","s">>>>
    /\ line = <<"3","2","9",",","N","O","_","M","A","T","C","H">>
    /\ Len(periods) = 1
    /\ periods[1].status = "Match"

\* the column names of the query_time, of the pending offset and of the
\* duration
QueryKeys == {<<"t","S","t","a","r","t","M","s","e","c">>, <<"t","S","t","a","r","t">>} \cup StartKeys
OffsetKeys == {<<"o","f","f","s","e","t">>, <<"o","f","f","s","e","t","_","s">>, <<"O","F","F","S","E","T">>}
DurationKeys == {<<"d","u","r","a","t","i","o","n","M","s","e","c">>, <<"d","u","r","a","t","i","o","n">>}

\* line_to_period is in its loop, has returned or has panicked: the pairs
\* before the i-th have been processed
InLoop == pc \in {"line_to_period", "lines", "panicked"} /\ i >= 1

\* a column named in keys has been processed
Processed(keys) == \E j \in 1..(i - 1) : Pairs[j].key \in keys

\* the last pair processed whose column is named in keys
LastProcessed(keys) ==
    Pairs[CHOOSE j \in 1..(i - 1) :
              /\ Pairs[j].key \in keys
              /\ \A k \in (j + 1)..(i - 1) : Pairs[k].key \notin keys]

\* the cell of the pair p, as the match sees it
CellOf(p) == clean_value(p.raw_value)

\* the time_in_file the timeInFile columns processed so far give
ExplicitTimeInFile ==
    IF Processed({<<"t","i","m","e","I","n","F","i","l","e">>})
    THEN parse_timestamp(CellOf(LastProcessed({<<"t","i","m","e","I","n","F","i","l","e">>}))).v
    ELSE ViewingPeriod_default.time_in_file

\* the pending offset the cell of the pair p gives
OffsetOf(p) ==
    IF p.key = <<"o","f","f","s","e","t">> THEN duration_from_millis(CellOf(p)).v
    ELSE duration_from_seconds(CellOf(p)).v

\* the duration the cell of the pair p gives
DurationOf(p) ==
    IF p.key = <<"d","u","r","a","t","i","o","n","M","s","e","c">> THEN duration_from_millis(CellOf(p)).v
    ELSE duration_from_seconds(CellOf(p)).v

\* the duration the duration columns processed so far give
ExplicitDuration ==
    IF Processed(DurationKeys) THEN DurationOf(LastProcessed(DurationKeys))
    ELSE ViewingPeriod_default.duration

\* C13 as stated: as long as no query_time column has been processed,
\* time_in_file is the default or the value of an explicit timeInFile
\* column, a pending offset or not.
C13_OffsetWaitsForQueryTime ==
    InLoop /\ ~Processed(QueryKeys) => vp.time_in_file = ExplicitTimeInFile

\* C13 amended: the offset is pending from the pass of an offset column on,
\* and as long as no query_time column has been processed time_in_file is
\* the default query_time minus the pending offset, when there is one, and
\* the default or the value of an explicit timeInFile column only when
\* there is none.
C13_OffsetDerivedAtOnce ==
    InLoop =>
        /\ offset.some = Processed(OffsetKeys)
        /\ ~Processed(QueryKeys) =>
               vp.time_in_file =
                   IF offset.some
                   THEN DateTime_sub(ViewingPeriod_default.query_time, offset.v).v
                   ELSE ExplicitTimeInFile

\* a line with an offset and a timeInFile column and no query_time column:
\* the time in file of its record is the offset before the epoch
C13_Witness ==
    /\ pc = "lines"
    /\ header = <<<<"o","f","f","s","e","t">>, <<"t","i","m","e","I","n","F","i","l","e">>>>
    /\ line = <<"3",",","7">>
    /\ Len(periods) = 1
    /\ periods[1].query_time = Instant(0)
    /\ periods[1].time_in_file = Instant(0 - 3)

\* C14 as stated: as long as no query_time column has been processed, the
\* duration is the default or the value of an explicit duration column, a
\* pending end_time or not.
C14_EndTimeWaitsForQueryTime ==
    InLoop /\ ~Processed(QueryKeys) => vp.duration = ExplicitDuration

\* C14 amended: the end_time is pending from the pass of an end_time column
\* on, and as long as no query_time column has been processed the duration
\* is the pending end_time minus the default query_time, when there is one,
\* and the default or the value of an explicit duration column only when
\* there is none.
C14_DurationDerivedAtOnce ==
    InLoop =>
        /\ end_time.some = Processed(EndKeys)
        /\ ~Processed(QueryKeys) =>
               vp.duration =
                   IF end_time.some
                   THEN DateTime_since(end_time.v, ViewingPeriod_default.query_time)
                   ELSE ExplicitDuration

\* a line with an endTime and a durationMsec column and no query_time
\* column: the duration of its record is the end time since the epoch
C14_Witness ==
    /\ pc = "lines"
    /\ header = <<<<"e","n","d","T","i","m","e">>, <<"d","u","r","a","t","i","o","n","M","s","e","c">>>>
    /\ line = <<"1","9","7","0","-","0","1","-","0","1"," ","0","0",":","0","0",":","0","9",".","5","0","0",",","4">>
    /\ Len(periods) = 1
    /\ periods[1].query_time = Instant(0)
    /\ periods[1].duration = 9500

\* the columns that assign time_in_file, the pending offset or query_time
TimeInFileInputs == {<<"t","i","m","e","I","n","F","i","l","e">>} \cup OffsetKeys \cup QueryKeys

\* C15 as stated: when an offset column and a query_time column have been
\* processed and the last column processed among those that touch
\* time_in_file, the offset or query_time is a timeInFile column,
\* time_in_file is the value of that column.
C15_ExplicitTimeInFileWins ==
    /\ InLoop
    /\ Processed(OffsetKeys)
    /\ Processed(QueryKeys)
    /\ Processed({<<"t","i","m","e","I","n","F","i","l","e">>})
    /\ LastProcessed(TimeInFileInputs).key = <<"t","i","m","e","I","n","F","i","l","e">>
    => vp.time_in_file = ExplicitTimeInFile

\* C15 amended: once a timeInFile column has been processed, time_in_file is
\* query_time minus the offset of the last offset column processed, before
\* or after it, when there is one, and the value of the last timeInFile
\* column only when no offset column has been processed.
C15_DerivedTimeInFileWins ==
    InLoop /\ Processed({<<"t","i","m","e","I","n","F","i","l","e">>}) =>
        vp.time_in_file =
            IF Processed(OffsetKeys)
            THEN DateTime_sub(vp.query_time, OffsetOf(LastProcessed(OffsetKeys))).v
            ELSE ExplicitTimeInFile

\* a timeInFile column 7 after the columns of the query_time 5 and of the
\* offset 3: the time in file of the record is 2
C15_Witness ==
    /\ pc = "lines"
    /\ header = <<<<"t","S","t","a","r","t">>, <<"o","f","f","s","e","t">>, <<"t","i","m","e","I","n","F","i","l","e">>>>
    /\ line = <<"5",",","3",",","7">>
    /\ Len(periods) = 1
    /\ periods[1].time_in_file = Instant(2)

EntryKeys == {<<"p","e","r","i","o","d","_","i","d">>, <<"i","d">>}

\* the query_time the cell of the pair p gives
QueryTimeOf(p) ==
    IF p.key \in StartKeys THEN parse_datetime_str(CellOf(p)).v
    ELSE parse_timestamp(CellOf(p)).v

\* what the cell of the last end_time column processed gives
LastEndTime == parse_datetime_str(CellOf(LastProcessed(EndKeys))).v

\* two or more columns named in keys have been processed
Several(keys) ==
    \E j, k \in 1..(i - 1) : j < k /\ Pairs[j].key \in keys /\ Pairs[k].key \in keys

\* the pair p is a status column whose cell spells a status
SpellsStatus(p) == p.key \in StatusKeys /\ to_uppercase(CellOf(p)) \in StatusTokens

\* the status the last status cell processed that spells one gives, the
\* default when there is none
SpelledStatus ==
    IF \E j \in 1..(i - 1) : SpellsStatus(Pairs[j])
    THEN StatusOfToken(to_uppercase(CellOf(
             Pairs[CHOOSE j \in 1..(i - 1) :
                       /\ SpellsStatus(Pairs[j])
                       /\ \A k \in (j + 1)..(i - 1) : ~SpellsStatus(Pairs[k])])))
    ELSE ViewingPeriod_default.status

\* C16 as stated: when several columns processed name the same field, the
\* field is what the cell of the last of them gives: entry_id, query_time,
\* duration, and the status when the last status cell processed spells one.
C16_LastAliasWins ==
    InLoop =>
        /\ Several(EntryKeys) => vp.entry_id = Some(CellOf(LastProcessed(EntryKeys)))
        /\ Several(QueryKeys) => vp.query_time = QueryTimeOf(LastProcessed(QueryKeys))
        /\ Several(DurationKeys) => vp.duration = DurationOf(LastProcessed(DurationKeys))
        /\ Several(StatusKeys) /\ SpellsStatus(LastProcessed(StatusKeys)) =>
               vp.status = StatusOfToken(to_uppercase(CellOf(LastProcessed(StatusKeys))))

\* C16 amended: after every pass of the loop and in the record returned,
\* entry_id and query_time are what the cell of the last column processed
\* that names the field gives, whatever earlier columns of the field held,
\* and the default when there is no such column.  The duration is that of
\* the last duration column only as long as no end_time column has been
\* processed, and from then on the time from query_time to the last end
\* time.  The status is Match when the stream_id is a non-sentinel value,
\* and what the last status cell that spells a status gives as long as no
\* stream_id column has been processed.
C16_LastAliasOrDerived ==
    InLoop =>
        /\ vp.entry_id =
               IF Processed(EntryKeys) THEN Some(CellOf(LastProcessed(EntryKeys)))
               ELSE ViewingPeriod_default.entry_id
        /\ vp.query_time =
               IF Processed(QueryKeys) THEN QueryTimeOf(LastProcessed(QueryKeys))
               ELSE ViewingPeriod_default.query_time
        /\ vp.duration =
               IF Processed(EndKeys) THEN DateTime_since(LastEndTime, vp.query_time)
               ELSE ExplicitDuration
        /\ HasMatchedStream(vp) => vp.status = "Match"
        /\ ~Processed(StreamKeys) => vp.status = SpelledStatus

\* the columns endTime, durationMsec and duration with the cells
\* 00:00:09.500, 4 and 1.5: the duration of the record is 9500 ms
C16_Witness ==
    /\ pc = "lines"
    /\ header = <<<<"e","n","d","T","i","m","e">>, <<"d","u","r","a","t","i","o","n","M","s","e","c">>, <<"d","u","r","a","t","i","o","n">>>>
    /\ Len(periods) = 1
    /\ periods[1].duration = 9500

\* C17: from the pass of an offset column on, after every pass of the loop
\* and in the record returned, offset() is what the cell of the last offset
\* column processed gives, whatever the order of the offset, query_time and
\* timeInFile columns, a query_time column or none.
C17_OffsetViewKept ==
    InLoop /\ Processed(OffsetKeys) =>
        /\ ViewingPeriod_offset(vp) = OffsetOf(LastProcessed(OffsetKeys))
        /\ \A k \in 1..Len(periods) :
               ViewingPeriod_offset(periods[k]) = OffsetOf(LastProcessed(OffsetKeys))

\* What does hold from the pass of an offset column on: time_in_file is
\* query_time minus the offset of the last offset column processed, and
\* offset() is that offset when query_time is no leap second.
OffsetViewKeptOffLeap ==
    InLoop /\ Processed(OffsetKeys) =>
        /\ Value(vp.time_in_file)
               = DateTime_sub(vp.query_time, OffsetOf(LastProcessed(OffsetKeys)))
        /\ ~IsLeapSecond(vp.query_time) =>
               ViewingPeriod_offset(vp) = OffsetOf(LastProcessed(OffsetKeys))

\* C18: from the pass of an end_time column on, after every pass of the
\* loop and in the record returned, end_time() is what the cell of the last
\* end_time column processed gives, so that no duration column decides the
\* duration of such a record, wherever the query_time column is.
C18_EndTimeViewKept ==
    InLoop /\ Processed(EndKeys) =>
        /\ ViewingPeriod_end_time(vp) = Value(LastEndTime)
        /\ \A k \in 1..Len(periods) :
               /\ ViewingPeriod_end_time(periods[k]) = Value(LastEndTime)
               /\ periods[k].duration = DateTime_since(LastEndTime, periods[k].query_time)

\* What does hold from the pass of an end_time column on: the duration is
\* the end time of the last end_time column processed minus query_time,
\* whatever the duration columns held, and end_time() is that end time when
\* neither it nor query_time is a leap second.
EndTimeViewKeptOffLeap ==
    InLoop /\ Processed(EndKeys) =>
        /\ vp.duration = DateTime_since(LastEndTime, vp.query_time)
        /\ ~IsLeapSecond(vp.query_time) /\ ~IsLeapSecond(LastEndTime) =>
               ViewingPeriod_end_time(vp) = Value(LastEndTime)
====
